---------------------------- MODULE Spec2Model ----------------------------
(***************************************************************************)
(* Accessibility tools of madina (src/src/madina/una/tools.py) over the    *)
(* Network Store's d view.                                                 *)
(*                                                                         *)
(* Numbers are integers.  NaN is the one non-number a table cell or a      *)
(* weight can hold.  Gravity terms are kept exact by giving beta in units  *)
(* of ln 2 (so that e^(beta*d) = 2^(beta*d)) and scaling every term by     *)
(* GravityScale.                                                           *)
(***************************************************************************)
EXTENDS Integers, Sequences, FiniteSets, Bags, TLC

(***************************************************************************)
(* Bounds of the model.                                                    *)
(***************************************************************************)
MaxOrigins == 2
MaxCalls == 2
NumWorkers == 2

\* Most nodes insert_node calls add to one network.
MaxInserted == 2

(***************************************************************************)
(* Values.                                                                 *)
(***************************************************************************)
NaN == -1

isnan(x) == x = NaN


GravityScale == 2 ^ 6

Min(S) == CHOOSE x \in S : \A y \in S : x <= y

(***************************************************************************)
(* The node and edge tables, as create_street_network and insert_node      *)
(* leave them: three street nodes, three destinations and the origins.     *)
(* Edge 1 carries two destinations and the first two origins; the third    *)
(* origin projects onto the very point of destination 6.  The two origins  *)
(* on edge 1 are equally far from destination 5; the shortest way from     *)
(* origin 7 to destination 6 runs round by edge 3.                         *)
(***************************************************************************)
StreetNodes == {1, 2, 3}

Destinations == {4, 5, 6}

EdgeIds == {1, 2, 3}

edges ==
    [e \in EdgeIds |->
        CASE e = 1 -> [start |-> 1, end |-> 2, weight |-> 8]
          [] e = 2 -> [start |-> 2, end |-> 3, weight |-> 4]
          [] e = 3 -> [start |-> 1, end |-> 3, weight |-> 1]]

\* Longer than any simple path of a view.
Inf == 1 + edges[1].weight + edges[2].weight + edges[3].weight

\* insert_node appends the origins after the rows already in the table.
FirstOrigin == Cardinality(StreetNodes) + Cardinality(Destinations) + 1

AllNodeIds == 1 .. 9

Inserted(e, ws, kind, sid) ==
    [type |-> kind, nearest_edge_id |-> e,
     edge_start_node |-> edges[e].start, weight_to_start |-> ws,
     edge_end_node |-> edges[e].end, weight_to_end |-> edges[e].weight - ws,
     source_id |-> sid]

StreetRow ==
    [type |-> "street_node", nearest_edge_id |-> 0,
     edge_start_node |-> 0, weight_to_start |-> 0,
     edge_end_node |-> 0, weight_to_end |-> 0, source_id |-> 0]

node_rows ==
    [i \in AllNodeIds |->
        CASE i \in StreetNodes -> StreetRow
          [] i = 4 -> Inserted(1, 1, "destination", 1)
          [] i = 5 -> Inserted(1, 4, "destination", 2)
          [] i = 6 -> Inserted(2, 1, "destination", 3)
          [] i = 7 -> Inserted(1, 2, "origin", 1)
          [] i = 8 -> Inserted(1, 6, "origin", 2)
          [] i = 9 -> Inserted(2, 1, "origin", 3)]

\* The weight attribute of the destinations' source layer, by source_id.
layer_weight == [sid \in 1 .. 3 |-> CASE sid = 1 -> 2 [] sid = 2 -> NaN [] sid = 3 -> 3]

OriginIndex(n) == [k \in 1 .. n |-> FirstOrigin + k - 1]

OriginSet(n) == {OriginIndex(n)[k] : k \in 1 .. n}

(***************************************************************************)
(* Graph views.  A view is a vertex set and a set of weighted edges, at    *)
(* most one per unordered vertex pair.                                     *)
(***************************************************************************)
GEdge(u, v, w, id) == [ends |-> {u, v}, weight |-> w, id |-> id]

Neighbors(g, n) == {m \in g.V \ {n} : \E x \in g.E : x.ends = {n, m}}

EdgeBetween(g, u, v) == CHOOSE x \in g.E : x.ends = {u, v}

\* The position of vertex m along street edge e, measured from its start.
PosOn(e, m) ==
    IF m = edges[e].start THEN 0
    ELSE IF m = edges[e].end THEN edges[e].weight
    ELSE node_rows[m].weight_to_start

LowPos(e, x) == Min({PosOn(e, m) : m \in x.ends})

HighPos(e, x) == -Min({-PosOn(e, m) : m \in x.ends})

\* The view's edge that now covers node n's projection on its nearest edge.
CoveringEdge(g, n) ==
    LET e == node_rows[n].nearest_edge_id
        p == node_rows[n].weight_to_start
        cand == {x \in g.E : x.id = e /\ LowPos(e, x) <= p /\ p <= HighPos(e, x)}
    IN CHOOSE x \in cand : \A y \in cand : LowPos(e, y) <= LowPos(e, x)

LeftEnd(e, x) == CHOOSE m \in x.ends : PosOn(e, m) = LowPos(e, x)

light_graph ==
    [V |-> StreetNodes,
     E |-> {GEdge(edges[e].start, edges[e].end, edges[e].weight, e) : e \in EdgeIds}]

add_node_to_graph(g, n) ==
    LET e == node_rows[n].nearest_edge_id
        p == node_rows[n].weight_to_start
        x == CoveringEdge(g, n)
        l == LeftEnd(e, x)
        r == CHOOSE m \in x.ends : x.ends = {l, m}
    IN [V |-> g.V \cup {n},
        E |-> (g.E \ {x}) \cup {GEdge(l, n, p - LowPos(e, x), e),
                                GEdge(n, r, HighPos(e, x) - p, e)}]

remove_node_to_graph(g, n) ==
    LET nb == Neighbors(g, n)
        l == Min(nb)
        r == CHOOSE m \in nb : m # l
        w == EdgeBetween(g, n, l).weight + EdgeBetween(g, n, r).weight
    IN IF Cardinality(nb) # 2
       THEN [V |-> g.V \ {n}, E |-> {x \in g.E : n \notin x.ends}]
       ELSE [V |-> g.V \ {n},
             E |-> {x \in g.E : n \notin x.ends}
                     \cup {GEdge(l, r, w, node_rows[n].nearest_edge_id)}]

RECURSIVE SpliceAll(_, _)
SpliceAll(g, S) ==
    IF S = {} THEN g
    ELSE LET n == Min(S) IN SpliceAll(add_node_to_graph(g, n), S \ {n})

\* create_graph's d view: the light view plus every destination.
create_d_graph == SpliceAll(light_graph, Destinations)

(***************************************************************************)
(* Scoped search with turn_penalty = False and detour_ratio = 1: bounded   *)
(* shortest distances from o over view g.                                  *)
(***************************************************************************)
\* One relaxation of vertex v against the distances of the previous round.
relaxed(g, dist, v) ==
    IF v \notin g.V THEN Inf
    ELSE Min({dist[v]} \cup
             {dist[u] + EdgeBetween(g, u, v).weight : u \in Neighbors(g, v)})

\* The distances of vertices 1..v after one more round, as a tuple.
RECURSIVE Round(_, _, _)
Round(g, dist, v) ==
    IF v = 0 THEN <<>> ELSE Append(Round(g, dist, v - 1), relaxed(g, dist, v))

RECURSIVE Relax(_, _, _)
Relax(g, dist, k) ==
    IF k = 0 THEN dist ELSE Relax(g, Round(g, dist, Len(dist)), k - 1)

RECURSIVE Start(_, _)
Start(o, v) ==
    IF v = 0 THEN <<>> ELSE Append(Start(o, v - 1), IF v = o THEN 0 ELSE Inf)

o_scope(g, o, search_radius) ==
    LET dist == Relax(g, Start(o, Cardinality(AllNodeIds)), Cardinality(g.V) - 1)
    IN [v \in {u \in g.V : dist[u] <= search_radius} |-> dist[v]]

turn_o_scope(g, o, search_radius) ==
    IF o \notin g.V THEN [v \in {} |-> 0]
    ELSE LET scope == o_scope(g, o, search_radius)
         IN [d \in DOMAIN scope \cap Destinations |-> scope[d]]


(***************************************************************************)
(* Arguments of one call.  weight and beta are <<>> for None.              *)
(***************************************************************************)
Radii == {0, 1, 6}

Args ==
    {a \in [reach : BOOLEAN, gravity : BOOLEAN, closest_facility : BOOLEAN,
            weight : {<<>>, <<"w">>}, search_radius : Radii,
            alpha : {1, 2}, beta : {<<>>, <<1>>}] :
        /\ (~a.gravity => a.beta = <<>>)
        /\ (a.beta = <<>> => a.alpha = 1)}

NoArgs ==
    [reach |-> FALSE, gravity |-> FALSE, closest_facility |-> FALSE,
     weight |-> <<>>, search_radius |-> 0, alpha |-> 1, beta |-> <<>>]

missing_beta(a) == a.gravity /\ a.beta = <<>>

(***************************************************************************)
(* The per-destination arithmetic of accessibility's loop body.            *)
(***************************************************************************)
Empty == [x \in {} |-> 0]

Put(f, k, v) == [x \in DOMAIN f \cup {k} |-> IF x = k THEN v ELSE f[x]]

d_weight(a, d) ==
    IF a.weight = <<>> THEN 1 ELSE layer_weight[node_rows[d].source_id]

pow(x, n) == IF isnan(x) THEN NaN ELSE x ^ n

\* Mutant of gravity_term: the distance decay is left out.
gravity_term_no_decay(a, d, dist) ==
    LET p == pow(d_weight(a, d), a.alpha)
    IN IF isnan(p) THEN NaN ELSE p * GravityScale

gravity_term(a, d, dist) ==
    LET p == pow(d_weight(a, d), a.alpha)
    IN IF isnan(p) THEN NaN ELSE (p * GravityScale) \div (2 ^ (a.beta[1] * dist))

add(x, y) == IF isnan(x) \/ isnan(y) THEN NaN ELSE x + y

\* sum([f[d] for d in S]): a NaN term makes the sum NaN.
RECURSIVE sum(_, _)
sum(f, S) ==
    IF S = {} THEN 0
    ELSE LET d == Min(S) IN add(f[d], sum(f, S \ {d}))

\* sum([value for value in f.values() if not np.isnan(value)])
nansum(f) == sum(f, {d \in DOMAIN f : ~isnan(f[d])})

\* Mutant of o_reaches: the weight attribute is ignored.
o_reaches_unweighted(a, found) ==
    IF a.reach THEN [d \in DOMAIN found |-> 1] ELSE Empty

o_reaches(a, found) ==
    IF a.reach THEN [d \in DOMAIN found |-> d_weight(a, d)] ELSE Empty

o_gravities(a, found) ==
    IF a.gravity THEN [d \in DOMAIN found |-> gravity_term(a, d, found[d])] ELSE Empty

\* Mutant of closer: an equal distance overwrites too.
closer_or_equal(cur_o, cur_dist, o, dist) ==
    IF isnan(cur_o) THEN TRUE ELSE dist <= cur_dist

\* Mutant of closer: the origin processed last always wins.
closer_last_wins(cur_o, cur_dist, o, dist) == TRUE

\* The closest-facility record of destination d after origin o found it at dist.
closer(cur_o, cur_dist, o, dist) ==
    IF isnan(cur_o) THEN TRUE ELSE dist < cur_dist

record_closest(tbl, a, o, found) ==
    IF ~a.closest_facility THEN tbl
    ELSE [tbl EXCEPT
            !.una_closest_destination =
                [d \in Destinations |->
                    IF d \in DOMAIN found
                       /\ closer(tbl.una_closest_destination[d],
                                 tbl.una_closest_destination_distance[d], o, found[d])
                    THEN o ELSE @[d]],
            !.una_closest_destination_distance =
                [d \in Destinations |->
                    IF d \in DOMAIN found
                       /\ closer(tbl.una_closest_destination[d],
                                 tbl.una_closest_destination_distance[d], o, found[d])
                    THEN found[d] ELSE @[d]]]

write_totals(tbl, a, o, r, g) ==
    [tbl EXCEPT
        !.una_reach = IF a.reach THEN [@ EXCEPT ![o] = nansum(r)] ELSE @,
        !.una_gravity = IF a.gravity THEN [@ EXCEPT ![o] = nansum(g)] ELSE @]

\* Lines 58-80 for one origin: the table after its destinations are folded in.
aggregate(tbl, a, o, found) ==
    write_totals(record_closest(tbl, a, o, found), a, o,
                 o_reaches(a, found), o_gravities(a, found))

(***************************************************************************)
(* The closest-facility recomputation after the loop.  It reads the        *)
(* una_closest_destination column, which exists only once some cell of it  *)
(* has been written, and looks the assigned destinations up in the         *)
(* per-origin dictionaries of this call.                                   *)
(***************************************************************************)
has_closest_column(tbl) ==
    \E d \in Destinations : ~isnan(tbl.una_closest_destination[d])

o_closest_destinations(tbl, o) ==
    {d \in Destinations : tbl.una_closest_destination[d] = o}

lookup_fails(dict, o, S) ==
    S # {} /\ (o \notin DOMAIN dict \/ ~(S \subseteq DOMAIN dict[o]))

\* Origins index[k..] in order; stops at the first KeyError.
RECURSIVE recompute(_, _, _, _, _, _)
recompute(tbl, a, index, k, rs, gs) ==
    IF k > Len(index) THEN [nodes |-> tbl, error |-> "none"]
    ELSE IF ~has_closest_column(tbl) THEN [nodes |-> tbl, error |-> "KeyError"]
    ELSE LET o == index[k]
             S == o_closest_destinations(tbl, o)
         IN IF a.reach /\ lookup_fails(rs, o, S)
            THEN [nodes |-> tbl, error |-> "KeyError"]
            ELSE LET t1 == IF a.reach
                           THEN [tbl EXCEPT !.una_reach[o] = sum(rs[o], S)]
                           ELSE tbl
                 IN IF a.gravity /\ lookup_fails(gs, o, S)
                    THEN [nodes |-> t1, error |-> "KeyError"]
                    ELSE recompute(
                            IF a.gravity
                            THEN [t1 EXCEPT !.una_gravity[o] = sum(gs[o], S)]
                            ELSE t1,
                            a, index, k + 1, rs, gs)

(***************************************************************************)
(* single_accessibility: one worker's state and its two stretches of code. *)
(***************************************************************************)
\* The sentinel parallel_accessibility puts on the queue once per worker.
DONE == 0

Workers == 1 .. NumWorkers

no_worker ==
    [pc |-> "none", nodes |-> Empty, d_graph |-> Empty, processed_origins |-> <<>>,
     reaches |-> Empty, gravities |-> Empty, error |-> "none"]

\* A submitted call: it works on its own copy of the zonal.
submitted(tbl, g) ==
    [pc |-> "pending", nodes |-> tbl, d_graph |-> g, processed_origins |-> <<>>,
     reaches |-> Empty, gravities |-> Empty, error |-> "none"]

\* Lines 468-475.
single_start(wk, a) ==
    IF missing_beta(a)
    THEN [wk EXCEPT !.pc = "raised", !.error = "ValueError"]
    ELSE [wk EXCEPT !.pc = "running"]

\* Mutant of single_iteration: the totals run on over the worker's origins
\* instead of starting afresh for each one.
single_iteration_running_total(wk, a, o) ==
    LET g1 == add_node_to_graph(wk.d_graph, o)
        found == turn_o_scope(g1, o, a.search_radius)
        g2 == remove_node_to_graph(g1, o)
        t == aggregate(wk.nodes, a, o, found)
        before == IF wk.processed_origins = <<>> THEN 0
                  ELSE wk.nodes.una_reach[wk.processed_origins[Len(wk.processed_origins)]]
    IN [wk EXCEPT
            !.processed_origins = Append(@, o),
            !.reaches = Put(@, o, o_reaches(a, found)),
            !.gravities = Put(@, o, o_gravities(a, found)),
            !.d_graph = g2,
            !.nodes = IF a.reach
                      THEN [t EXCEPT !.una_reach[o] = add(@, before)]
                      ELSE t]

\* Lines 482-526, for the origin just taken from the queue.
single_iteration(wk, a, o) ==
    LET g1 == add_node_to_graph(wk.d_graph, o)
        found == turn_o_scope(g1, o, a.search_radius)
        g2 == remove_node_to_graph(g1, o)
    IN [wk EXCEPT
            !.processed_origins = Append(@, o),
            !.reaches = Put(@, o, o_reaches(a, found)),
            !.gravities = Put(@, o, o_gravities(a, found)),
            !.d_graph = g2,
            !.nodes = aggregate(@, a, o, found)]

\* Lines 479-481 and 528-535, once the sentinel is taken.
single_finish(wk, a, index) ==
    LET r == IF a.closest_facility
             THEN recompute(wk.nodes, a, index, 1, wk.reaches, wk.gravities)
             ELSE [nodes |-> wk.nodes, error |-> "none"]
    IN [wk EXCEPT
            !.nodes = r.nodes,
            !.reaches = Empty,
            !.gravities = Empty,
            !.pc = IF r.error = "none" THEN "returned" ELSE "raised",
            !.error = r.error]

row(tbl, o) ==
    [id |-> o, una_reach |-> tbl.una_reach[o], una_gravity |-> tbl.una_gravity[o]]

\* node_gdf.loc[processed_origins]: one row per entry of the list.
RECURSIVE loc(_, _)
loc(tbl, ids) ==
    IF ids = <<>> THEN EmptyBag
    ELSE SetToBag({row(tbl, Head(ids))}) (+) loc(tbl, Tail(ids))

\* pd.concat(origin_returns); the order of the rows is left open.
RECURSIVE concat(_, _)
concat(ws, S) ==
    IF S = {} THEN EmptyBag
    ELSE LET w == Min(S)
         IN loc(ws[w].nodes, ws[w].processed_origins) (+) concat(ws, S \ {w})

done(wk) == wk.pc \in {"returned", "raised"}

(***************************************************************************)
(* Scoped search with turn penalties (turn_o_scope), on a small graph with *)
(* straight edges between points of the plane and the origin already       *)
(* spliced in.  Vertex 1 is the origin, 4 and 5 are destinations.  Vertex  *)
(* 3 is reached cheapest over edge 1, from where going on to 4 is a turn   *)
(* of more than 45 degrees; the way round by vertex 2 bends by 45 degrees  *)
(* at most.                                                                *)
(***************************************************************************)
TurnNodes == 1 .. 5

TurnOrigin == 1

TurnDestinations == {4, 5}

point ==
    [n \in TurnNodes |->
        CASE n = 1 -> <<0, 0>>
          [] n = 2 -> <<1, 0>>
          [] n = 3 -> <<2, 1>>
          [] n = 4 -> <<2, 2>>
          [] n = 5 -> <<1, 2>>]

TurnEdgeIds == 1 .. 7

turn_edges ==
    [e \in TurnEdgeIds |->
        CASE e = 1 -> [ends |-> {1, 3}, weight |-> 2]
          [] e = 2 -> [ends |-> {1, 2}, weight |-> 1]
          [] e = 3 -> [ends |-> {2, 3}, weight |-> 2]
          [] e = 4 -> [ends |-> {3, 4}, weight |-> 1]
          [] e = 5 -> [ends |-> {4, 5}, weight |-> 2]
          [] e = 6 -> [ends |-> {2, 5}, weight |-> 4]
          [] e = 7 -> [ends |-> {2, 4}, weight |-> 2]]

turn_neighbors(n) == {m \in TurnNodes : \E e \in TurnEdgeIds : turn_edges[e].ends = {n, m}}

turn_edge(n, m) == CHOOSE e \in TurnEdgeIds : turn_edges[e].ends = {n, m}

\* The angular deviation between going u -> n and going n -> v exceeds the
\* threshold (0 is straight on, 180 a full reversal); exact for the
\* thresholds 0, 45, 90 and 180.
deviates(u, n, v, turn_threshold_degree) ==
    LET ix == point[n][1] - point[u][1]
        iy == point[n][2] - point[u][2]
        ox == point[v][1] - point[n][1]
        oy == point[v][2] - point[n][2]
        dot == ix * ox + iy * oy
        cross == ix * oy - iy * ox
    IN CASE turn_threshold_degree = 0 -> ~(cross = 0 /\ dot > 0)
         [] turn_threshold_degree = 45 ->
                dot <= 0 \/ 2 * dot * dot < (ix * ix + iy * iy) * (ox * ox + oy * oy)
         [] turn_threshold_degree = 90 -> dot < 0
         [] OTHER -> FALSE

\* The configurations of one search.
SearchRadii == {2, 4, 10}

DetourRatios == {1, 2}

TurnThresholds == {0, 45, 90}

TurnPenaltyAmounts == {0, 5}

SearchConfigs ==
    [o_idx : {TurnOrigin}, search_radius : SearchRadii, detour_ratio : DetourRatios,
     turn_penalty : BOOLEAN, turn_threshold_degree : TurnThresholds,
     turn_penalty_amount : TurnPenaltyAmounts]

no_search == [pc |-> "none"]

\* The search as it starts: only the origin is in the scope.
search_start(c) ==
    [pc |-> "running", config |-> c,
     forward_q |-> {<<0, c.o_idx>>},
     o_scope |-> (c.o_idx :> 0),
     prev |-> (c.o_idx :> 0),
     d_idxs |-> Empty]

turn_cost(st, n, v) ==
    IF /\ st.config.turn_penalty
       /\ st.prev[n] # 0
       /\ deviates(st.prev[n], n, v, st.config.turn_threshold_degree)
    THEN st.config.turn_penalty_amount
    ELSE 0

\* Mutant of relax_neighbor: the cutoff is tested before the turn cost is
\* added.
relax_neighbor_cutoff_before_turn(st, weight, n, v) ==
    LET reached == weight + turn_edges[turn_edge(n, v)].weight
        spent == reached + turn_cost(st, n, v)
    IN IF \/ (v \in DOMAIN st.o_scope /\ spent >= st.o_scope[v])
          \/ reached > st.config.search_radius * st.config.detour_ratio
       THEN st
       ELSE [st EXCEPT
                !.forward_q = @ \cup {<<spent, v>>},
                !.o_scope = Put(@, v, spent),
                !.prev = Put(@, v, n),
                !.d_idxs = IF v \in TurnDestinations THEN Put(@, v, spent) ELSE @]

\* Vertex n, taken from the queue at cost weight, relaxes its neighbour v.
relax_neighbor(st, weight, n, v) ==
    LET spent == weight + turn_edges[turn_edge(n, v)].weight + turn_cost(st, n, v)
    IN IF \/ (v \in DOMAIN st.o_scope /\ spent >= st.o_scope[v])
          \/ spent > st.config.search_radius * st.config.detour_ratio
       THEN st
       ELSE [st EXCEPT
                !.forward_q = @ \cup {<<spent, v>>},
                !.o_scope = Put(@, v, spent),
                !.prev = Put(@, v, n),
                !.d_idxs = IF v \in TurnDestinations THEN Put(@, v, spent) ELSE @]

RECURSIVE relax_neighbors(_, _, _, _)
relax_neighbors(st, weight, n, S) ==
    IF S = {} THEN st
    ELSE LET v == Min(S)
         IN relax_neighbors(relax_neighbor(st, weight, n, v), weight, n, S \ {v})

\* The queue entry a heap hands out first.
heap_top(q) ==
    CHOOSE t \in q : \A u \in q : t[1] < u[1] \/ (t[1] = u[1] /\ t[2] <= u[2])

\* One turn of the expansion loop: pop the cheapest entry and relax from it,
\* unless a cheaper way to its vertex was found since it was pushed.
search_pop(st) ==
    LET t == heap_top(st.forward_q)
        rest == [st EXCEPT !.forward_q = @ \ {t}]
    IN IF t[1] > st.o_scope[t[2]] THEN rest
       ELSE relax_neighbors(rest, t[1], t[2], turn_neighbors(t[2]))

(***************************************************************************)
(* The path enumerator (path_generator) behind alternative_paths: after    *)
(* the scoped search, a depth-first expansion from the origin that never   *)
(* takes an edge twice within one path and stops where the cost exceeds    *)
(* the allowed distance.                                                   *)
(***************************************************************************)
no_walk == [pc |-> "none"]

\* Going from u over n on to v: the edge's weight and the turn's cost.
step_cost(c, u, n, v) ==
    turn_edges[turn_edge(n, v)].weight
        + (IF c.turn_penalty /\ u # 0 /\ deviates(u, n, v, c.turn_threshold_degree)
           THEN c.turn_penalty_amount
           ELSE 0)

\* The allowed distance of every destination in range.
d_allowed_distances(st) ==
    [d \in DOMAIN st.d_idxs |-> st.d_idxs[d] * st.config.detour_ratio]

Max(S) == CHOOSE x \in S : \A y \in S : y <= x

walk_start(st) ==
    [pc |-> "running", config |-> st.config,
     allowed |-> d_allowed_distances(st),
     stack |-> <<[edges |-> <<>>, at |-> st.config.o_idx, from |-> 0, cost |-> 0]>>,
     path_edges |-> [d \in DOMAIN st.d_idxs |-> <<>>],
     distances |-> [d \in DOMAIN st.d_idxs |-> <<>>],
     rows |-> {}]

Range(f) == {f[i] : i \in DOMAIN f}

\* The partial path f extended to neighbour v.
extended(w, f, v) ==
    [edges |-> Append(f.edges, turn_edge(f.at, v)), at |-> v, from |-> f.at,
     cost |-> f.cost + step_cost(w.config, f.from, f.at, v)]

\* Mutant of may_extend: a vertex, not an edge, may not be taken twice.
may_extend_no_vertex_twice(w, f, v) ==
    /\ v # w.config.o_idx
    /\ \A i \in DOMAIN f.edges : v \notin turn_edges[f.edges[i]].ends
    /\ DOMAIN w.allowed # {}
    /\ extended(w, f, v).cost <= Max(Range(w.allowed))

may_extend(w, f, v) ==
    /\ turn_edge(f.at, v) \notin Range(f.edges)
    /\ DOMAIN w.allowed # {}
    /\ extended(w, f, v).cost <= Max(Range(w.allowed))

\* The extensions of f, the lowest neighbour on top.
RECURSIVE extensions(_, _, _)
extensions(w, f, S) ==
    IF S = {} THEN <<>>
    ELSE LET v == Min(S)
         IN (IF may_extend(w, f, v) THEN <<extended(w, f, v)>> ELSE <<>>)
                \o extensions(w, f, S \ {v})

\* One step of the expansion: the top of the stack is recorded if it ends
\* at a destination within its allowed distance, and replaced by its
\* extensions.
walk_step(w) ==
    LET f == Head(w.stack)
        hit == f.at \in DOMAIN w.allowed /\ f.cost <= w.allowed[f.at]
    IN [w EXCEPT
            !.stack = extensions(w, f, turn_neighbors(f.at)) \o Tail(@),
            !.path_edges = IF hit THEN [@ EXCEPT ![f.at] = Append(@, f.edges)] ELSE @,
            !.distances = IF hit THEN [@ EXCEPT ![f.at] = Append(@, f.cost)] ELSE @]

\* alternative_paths' three lists, destination after destination.
RECURSIVE destination_list(_, _)
destination_list(w, S) ==
    IF S = {} THEN <<>>
    ELSE LET d == Min(S)
         IN [i \in 1 .. Len(w.distances[d]) |-> d] \o destination_list(w, S \ {d})

RECURSIVE distance_list(_, _)
distance_list(w, S) ==
    IF S = {} THEN <<>>
    ELSE LET d == Min(S) IN w.distances[d] \o distance_list(w, S \ {d})

RECURSIVE path_geometries(_, _)
path_geometries(w, S) ==
    IF S = {} THEN <<>>
    ELSE LET d == Min(S) IN w.path_edges[d] \o path_geometries(w, S \ {d})

\* The rows of the frame alternative_paths returns; sorting by distance
\* leaves the set of rows as it is.
destination_gdf(w) ==
    LET ds == DOMAIN w.distances
    IN {[destination |-> destination_list(w, ds)[i],
         distance |-> distance_list(w, ds)[i],
         geometry |-> path_geometries(w, ds)[i]] :
        i \in 1 .. Len(destination_list(w, ds))}

(***************************************************************************)
(* Betweenness (paralell_betweenness_exposure): every origin sends one     *)
(* unit of flow to each destination in range, split evenly over the paths  *)
(* the enumerator found; workers sum the flow of the origins they take     *)
(* per edge, and the partial sums are summed by edge id.                   *)
(***************************************************************************)
BetweennessOrigins == <<1, 2, 3>>

\* One unit of flow, so that even shares are whole numbers of parts.
FlowScale == 2 ^ 6

no_flow == [pc |-> "none"]

RECURSIVE search_run(_)
search_run(st) == IF st.forward_q = {} THEN st ELSE search_run(search_pop(st))

RECURSIVE walk_run(_)
walk_run(w) == IF w.stack = <<>> THEN w ELSE walk_run(walk_step(w))

\* The paths from origin o under configuration c, per destination in range.
paths_from(c, o) == walk_run(walk_start(search_run(search_start([c EXCEPT !.o_idx = o])))).path_edges

no_betweenness == [e \in TurnEdgeIds |-> 0]

\* Mutant of sum_by_edge: the later table replaces the earlier one.
sum_by_edge_last_wins(a, b) == [e \in TurnEdgeIds |-> IF b[e] # 0 THEN b[e] ELSE a[e]]

sum_by_edge(a, b) == [e \in TurnEdgeIds |-> a[e] + b[e]]

\* path_detour_penalty = 'equal': the flow to one destination over its paths.
equal_flow(paths) ==
    [e \in TurnEdgeIds |->
        Cardinality({i \in DOMAIN paths : e \in Range(paths[i])})
            * (FlowScale \div Len(paths))]

RECURSIVE destinations_flow(_, _)
destinations_flow(paths, S) ==
    IF S = {} THEN no_betweenness
    ELSE LET d == Min(S)
         IN sum_by_edge(IF paths[d] = <<>> THEN no_betweenness ELSE equal_flow(paths[d]),
                        destinations_flow(paths, S \ {d}))

\* The betweenness of one origin alone.
origin_betweenness(c, o) ==
    LET paths == paths_from(c, o) IN destinations_flow(paths, DOMAIN paths)

betweenness_start(c, n) ==
    [pc |-> "running", config |-> c,
     origin_queue |-> SubSeq(BetweennessOrigins, 1, n) \o [w \in Workers |-> DONE],
     partial |-> [w \in Workers |-> no_betweenness],
     taken |-> [w \in Workers |-> <<>>],
     finished |-> {}, merged |-> {},
     betweenness |-> no_betweenness]

(***************************************************************************)
(* Zonal.create_street_network: validation, the node/edge builder and the  *)
(* treatment of redundant edges.                                           *)
(***************************************************************************)
\* None is the empty tuple, any other optional value v the tuple <<v>>.
None == <<>>

\* The lines of the loaded layer "streets": the nodes their ends snap to,
\* their geometric length and their column "cost".
line(a, b, l, c) == [start |-> a, end |-> b, length |-> l, cost |-> c]

StreetLayers ==
    { <<line(1, 2, 4, 2), line(2, 3, 2, 2)>>,
      <<line(1, 2, 4, 2), line(2, 1, 2, 4), line(2, 3, 2, 2)>>,
      <<line(1, 2, 6, 2), line(1, 2, 2, 2), line(2, 1, 2, 4), line(2, 3, 4, 2)>>,
      <<line(1, 1, 4, 2), line(1, 1, 2, 2), line(1, 2, 2, 2)>> }

LayerNames == {"streets"}

LayerColumns == {"cost"}

no_build == [variant |-> "none"]

\* node_edge_builder: one node per distinct end, one edge per line.
node_edge_builder(geometry_gdf, weight_attribute) ==
    [nodes |-> {geometry_gdf[i].start : i \in DOMAIN geometry_gdf}
                \cup {geometry_gdf[i].end : i \in DOMAIN geometry_gdf},
     edges |-> [i \in DOMAIN geometry_gdf |->
                  [start |-> geometry_gdf[i].start, end |-> geometry_gdf[i].end,
                   weight |-> IF weight_attribute = None
                              THEN geometry_gdf[i].length
                              ELSE geometry_gdf[i].cost]]]

\* Mutant of node_pair: the pair as it is written, start first.
node_pair_as_written(edge) == <<edge.start, edge.end>>

\* The node pair an edge connects.
node_pair(edge) == {edge.start, edge.end}

\* The edges that share their node pair with another edge.
redundant(edge_gdf) ==
    {e \in DOMAIN edge_gdf :
        \E f \in DOMAIN edge_gdf : f # e /\ node_pair(edge_gdf[f]) = node_pair(edge_gdf[e])}

\* discard: of the edges of one node pair only the minimum-weight one stays
\* (the first of them where several weigh the same).
_discard_redundant_edges(edge_gdf) ==
    LET kept == {e \in DOMAIN edge_gdf :
                    \A f \in DOMAIN edge_gdf :
                        node_pair(edge_gdf[f]) = node_pair(edge_gdf[e]) =>
                            \/ edge_gdf[e].weight < edge_gdf[f].weight
                            \/ edge_gdf[e].weight = edge_gdf[f].weight /\ e <= f}
    IN [e \in kept |-> edge_gdf[e]]

\* How many elements of S are at most x.
rank(S, x) == Cardinality({y \in S : y <= x})

\* split: every redundant edge gets a new node at its centroid and gives
\* way to two edges of half its weight that share the new node.
_split_redundant_edges(node_gdf, edge_gdf) ==
    LET R == redundant(edge_gdf)
        last_node == Max(node_gdf)
        last_edge == Max(DOMAIN edge_gdf)
        centroid(e) == last_node + rank(R, e)
        second(e) == last_edge + rank(R, e)
    IN [nodes |-> node_gdf \cup {centroid(e) : e \in R},
        edges |-> [i \in DOMAIN edge_gdf \cup {second(e) : e \in R} |->
                    IF i \in DOMAIN edge_gdf /\ i \notin R THEN edge_gdf[i]
                    ELSE IF i \in R
                    THEN [start |-> edge_gdf[i].start, end |-> centroid(i),
                          weight |-> edge_gdf[i].weight \div 2]
                    ELSE LET e == CHOOSE r \in R : second(r) = i
                         IN [start |-> centroid(e), end |-> edge_gdf[e].end,
                             weight |-> edge_gdf[e].weight \div 2]]]

\* The arguments of create_street_network.
StreetNetworkArgs ==
    [source_layer : {"streets", "parks"},
     weight_attribute : {None, <<"cost">>, <<"width">>},
     node_snapping_tolerance : {0, -1},
     redundant_edge_treatment : {"keep", "discard", "split", "merge"},
     turn_threshold_degree : {45, -1, 181},
     turn_penalty_amount : {30, -1}]

\* The arguments of the variant with one flag per treatment.
StreetNetworkFlagArgs ==
    [source_layer : {"streets", "parks"},
     weight_attribute : {None, <<"cost">>},
     discard_redundant_edges : BOOLEAN,
     split_redundant_edges : BOOLEAN,
     turn_threshold_degree : {45},
     turn_penalty_amount : {30}]

\* Mutant of input_validation: the turn threshold is checked from below only.
input_validation_threshold_from_below(a) ==
    IF a.source_layer \notin LayerNames THEN "ValueError"
    ELSE IF a.weight_attribute # None /\ a.weight_attribute[1] \notin LayerColumns
    THEN "ValueError"
    ELSE IF a.node_snapping_tolerance < 0 THEN "ValueError"
    ELSE IF a.redundant_edge_treatment \notin {"keep", "discard", "split"} THEN "ValueError"
    ELSE IF a.turn_threshold_degree < 0 THEN "ValueError"
    ELSE IF a.turn_penalty_amount < 0 THEN "ValueError"
    ELSE "none"

\* The input validation of create_street_network: the error it raises.
input_validation(a) ==
    IF a.source_layer \notin LayerNames THEN "ValueError"
    ELSE IF a.weight_attribute # None /\ a.weight_attribute[1] \notin LayerColumns
    THEN "ValueError"
    ELSE IF a.node_snapping_tolerance < 0 THEN "ValueError"
    ELSE IF a.redundant_edge_treatment \notin {"keep", "discard", "split"} THEN "ValueError"
    ELSE IF a.turn_threshold_degree < 0 \/ a.turn_threshold_degree > 180 THEN "ValueError"
    ELSE IF a.turn_penalty_amount < 0 THEN "ValueError"
    ELSE "none"

\* The variant with flags checks the layer only.
input_validation_flags(a) ==
    IF a.source_layer \notin LayerNames THEN "ValueError" ELSE "none"

\* The builder's tables after the treatment the call asks for, and the
\* treatments that ran.
treated(built, split, discard) ==
    IF split
    THEN [nodes |-> _split_redundant_edges(built.nodes, built.edges).nodes,
          edges |-> _split_redundant_edges(built.nodes, built.edges).edges,
          applied |-> <<"split">>]
    ELSE IF discard
    THEN [nodes |-> built.nodes, edges |-> _discard_redundant_edges(built.edges),
          applied |-> <<"discard">>]
    ELSE [nodes |-> built.nodes, edges |-> built.edges, applied |-> <<>>]

\* Mutant of redundant_edge_treatment: discarding follows splitting.
redundant_edge_treatment_both(built, a) ==
    IF a.redundant_edge_treatment = "split"
    THEN [nodes |-> _split_redundant_edges(built.nodes, built.edges).nodes,
          edges |-> _discard_redundant_edges(
                        _split_redundant_edges(built.nodes, built.edges).edges),
          applied |-> <<"split", "discard">>]
    ELSE treated(built, FALSE, a.redundant_edge_treatment = "discard")

redundant_edge_treatment(built, a) ==
    treated(built, a.redundant_edge_treatment = "split",
            a.redundant_edge_treatment = "discard")

redundant_edge_flags(built, a) ==
    treated(built, a.split_redundant_edges, a.discard_redundant_edges)

\* Network(node_gdf, edge_gdf, ...): street nodes only, nothing inserted.
Network(t, a) ==
    [nodes |-> t.nodes, edges |-> t.edges, inserted |-> <<>>,
     projection_columns |-> FALSE,
     light_graph |-> None, d_graph |-> None,
     turn_threshold_degree |-> a.turn_threshold_degree,
     turn_penalty_amount |-> a.turn_penalty_amount,
     weight_attribute |-> a.weight_attribute]

\* The Zonal object after one call: error is the validation's verdict, t the
\* treated tables of a call that passed it.
after_call(b, a, error, built, t) ==
    [b EXCEPT
        !.network = IF error = "none" THEN <<Network(t, a)>> ELSE @,
        !.last = <<[args |-> a, raised |-> error, prior |-> b.network,
                    builder_called |-> error = "none",
                    built |-> IF error = "none" THEN <<built.edges>> ELSE None,
                    applied |-> IF error = "none" THEN t.applied ELSE <<>>]>>]

(***************************************************************************)
(* Zonal.insert_node: every point of the layer is projected onto its       *)
(* nearest edge and appended to the node table.                            *)
(***************************************************************************)
NodeLabels == {"origin", "destination"}

\* Mutant of inserted_node: the edge's nodes are taken the other way round.
inserted_node_ends_swapped(edge_gdf, id, label, e, along) ==
    [id |-> id, type |-> label, weight |-> 1, nearest_edge_id |-> e,
     edge_start_node |-> edge_gdf[e].end, weight_to_start |-> along,
     edge_end_node |-> edge_gdf[e].start,
     weight_to_end |-> edge_gdf[e].weight - along]

\* efficient_node_insertion for one point whose nearest edge is e and whose
\* projection lies along the edge at that distance from its start.
inserted_node(edge_gdf, id, label, e, along) ==
    [id |-> id, type |-> label, weight |-> 1, nearest_edge_id |-> e,
     edge_start_node |-> edge_gdf[e].start, weight_to_start |-> along,
     edge_end_node |-> edge_gdf[e].end,
     weight_to_end |-> edge_gdf[e].weight - along]

\* Where along an edge of that weight the model's points project to.
Projections(weight) == {0, weight \div 2, weight}

\* The node table's next free id.
next_node_id(network) == Max(network.nodes) + Len(network.inserted) + 1

\* The network after insert_node of a one-point layer; the variant with a
\* treatment argument first gives the table the five projection columns.
with_inserted_node(b, label, e, along) ==
    LET network == b.network[1]
    IN [b EXCEPT
           !.network[1].projection_columns = b.variant = "treatment" \/ @,
           !.network[1].inserted =
               Append(@, inserted_node(network.edges, next_node_id(network),
                                       label, e, along))]

(***************************************************************************)
(* State.                                                                  *)
(***************************************************************************)
VARIABLES
    n_origins,     \* how many origins insert_node added to the node table
    nodes,         \* the computed columns of zonal.network.nodes
    d_graph,       \* zonal.network.d_graph
    calls,         \* calls made so far
    pc,            \* position inside accessibility ("idle" outside a call)
    args,          \* arguments of the current (or last) call
    outcome,       \* how the last call ended
    o_pos,         \* position of the for loop in origin_gdf.index
    d_idxs,        \* the search's destination distances for the current origin
    reaches,       \* the call's reaches dictionary
    gravities,     \* the call's gravities dictionary
    no_prior,      \* history: the table had no closest-facility cell at entry
    origin_queue,  \* the manager queue of parallel_accessibility
    workers,       \* the submitted single_accessibility calls
    coord,         \* position inside parallel_accessibility ("idle" outside)
    x,             \* <<the frame parallel_accessibility returned>>, or <<>>
    search,        \* one run of the scoped search (turn_o_scope) on the turn graph
    walk,          \* one run of the path enumerator behind alternative_paths
    flow,          \* one call of betweenness: the queue, the workers' sums, the merge
    build,         \* the Zonal object of create_street_network and insert_node
    area           \* the call of service_area under way, or the last one made

table == <<n_origins, nodes, d_graph>>

locals == <<o_pos, d_idxs, reaches, gravities>>

pool == <<origin_queue, workers, coord>>

\* The state of the components the accessibility tools do not touch.
aux == <<search, walk, flow, build, area>>

vars == <<table, calls, pc, args, outcome, locals, no_prior, pool, x, aux>>

origin_index == OriginIndex(n_origins)

o_idx == origin_index[o_pos]

fresh_nodes(n) ==
    [una_reach |-> [o \in OriginSet(n) |-> NaN],
     una_gravity |-> [o \in OriginSet(n) |-> NaN],
     una_closest_destination |-> [d \in Destinations |-> NaN],
     una_closest_destination_distance |-> [d \in Destinations |-> NaN]]

no_pool == [w \in Workers |-> no_worker]

\* service_area was not called yet.
no_area == [pc |-> "idle", outcome |-> "none"]

\* The accessibility tools at rest on a zonal with the origins inserted and
\* the views built.
tools_idle ==
    /\ nodes = fresh_nodes(n_origins)
    /\ d_graph = create_d_graph
    /\ calls = 0
    /\ pc = "idle"
    /\ args = NoArgs
    /\ outcome = "none"
    /\ o_pos = 0
    /\ d_idxs = Empty
    /\ reaches = Empty
    /\ gravities = Empty
    /\ no_prior = TRUE
    /\ origin_queue = <<>>
    /\ workers = no_pool
    /\ coord = "idle"
    /\ x = <<>>
    /\ area = no_area

Init ==
    /\ n_origins \in 0 .. MaxOrigins
    /\ tools_idle
    /\ search = no_search
    /\ walk = no_walk
    /\ flow = no_flow
    /\ build = no_build

(***************************************************************************)
(* accessibility and closest_facility, one action per stretch of the loop. *)
(***************************************************************************)
enter(a) ==
    /\ calls' = calls + 1
    /\ args' = a
    /\ d_idxs' = Empty
    /\ reaches' = Empty
    /\ gravities' = Empty
    /\ no_prior' = ~has_closest_column(nodes)
    /\ origin_queue' = <<>>
    /\ workers' = no_pool
    /\ UNCHANGED <<table, coord, x, aux>>
    /\ IF missing_beta(a)
       THEN pc' = "idle" /\ outcome' = "ValueError" /\ o_pos' = 0
       ELSE pc' = "loop" /\ outcome' = "running" /\ o_pos' = 1

accessibility(a) ==
    /\ pc = "idle"
    /\ coord = "idle"
    /\ calls < MaxCalls
    /\ enter(a)

closest_facility(a) ==
    /\ pc = "idle"
    /\ coord = "idle"
    /\ calls < MaxCalls
    /\ a.closest_facility
    /\ enter(a)

SpliceStep ==
    /\ pc = "loop"
    /\ o_pos <= n_origins
    /\ reaches' = Put(reaches, o_idx, Empty)
    /\ gravities' = Put(gravities, o_idx, Empty)
    /\ d_graph' = add_node_to_graph(d_graph, o_idx)
    /\ pc' = "spliced"
    /\ UNCHANGED <<n_origins, nodes, calls, args, outcome, o_pos, d_idxs,
                   no_prior, aux, pool, x>>

SearchStep ==
    /\ pc = "spliced"
    /\ d_idxs' = turn_o_scope(d_graph, o_idx, args.search_radius)
    /\ pc' = "searched"
    /\ UNCHANGED <<table, calls, args, outcome, o_pos, reaches, gravities,
                   no_prior, aux, pool, x>>

\* Mutant of RestoreStep: the origin is left in the view.
RestoreStep_forgotten ==
    /\ pc = "searched"
    /\ pc' = "restored"
    /\ UNCHANGED <<table, calls, args, outcome, locals, no_prior, aux, pool, x>>

RestoreStep ==
    /\ pc = "searched"
    /\ d_graph' = remove_node_to_graph(d_graph, o_idx)
    /\ pc' = "restored"
    /\ UNCHANGED <<n_origins, nodes, calls, args, outcome, locals, no_prior, aux,
                   pool, x>>

AggregateStep ==
    /\ pc = "restored"
    /\ reaches' = Put(reaches, o_idx, o_reaches(args, d_idxs))
    /\ gravities' = Put(gravities, o_idx, o_gravities(args, d_idxs))
    /\ nodes' = aggregate(nodes, args, o_idx, d_idxs)
    /\ o_pos' = o_pos + 1
    /\ d_idxs' = Empty
    /\ pc' = "loop"
    /\ UNCHANGED <<n_origins, d_graph, calls, args, outcome, no_prior, aux, pool, x>>

ReturnStep ==
    /\ pc = "loop"
    /\ o_pos > n_origins
    /\ LET r == IF args.closest_facility
                THEN recompute(nodes, args, origin_index, 1, reaches, gravities)
                ELSE [nodes |-> nodes, error |-> "none"]
       IN /\ nodes' = r.nodes
          /\ outcome' = IF r.error = "none" THEN "returned" ELSE r.error
    /\ pc' = "idle"
    /\ o_pos' = 0
    /\ reaches' = Empty
    /\ gravities' = Empty
    /\ UNCHANGED <<n_origins, d_graph, calls, args, d_idxs, no_prior, aux, pool, x>>

(***************************************************************************)
(* parallel_accessibility: the coordinator and its workers.                *)
(***************************************************************************)
sentinels == [k \in Workers |-> DONE]

\* Mutant of enqueued: the sentinels are put before the origin ids.
enqueued_sentinels_first(index) == sentinels \o index

\* Lines 405-410: every origin id is put, then one sentinel per worker.
enqueued(index) == index \o sentinels

parallel_accessibility(a) ==
    /\ pc = "idle"
    /\ coord = "idle"
    /\ calls < MaxCalls
    /\ calls' = calls + 1
    /\ args' = a
    /\ outcome' = "running"
    /\ origin_queue' = enqueued(origin_index)
    /\ workers' = [w \in Workers |-> submitted(nodes, d_graph)]
    /\ coord' = "poll"
    /\ x' = <<>>
    /\ UNCHANGED <<table, pc, locals, no_prior, aux>>

WorkerStart(w) ==
    /\ coord # "idle"
    /\ workers[w].pc = "pending"
    /\ workers' = [workers EXCEPT ![w] = single_start(@, args)]
    /\ UNCHANGED <<table, calls, pc, args, outcome, locals, no_prior, aux,
                   origin_queue, coord, x>>

\* Mutant of WorkerTakeOrigin: the origin is read but stays on the queue.
WorkerPeekOrigin(w) ==
    /\ coord # "idle"
    /\ workers[w].pc = "running"
    /\ origin_queue # <<>>
    /\ Head(origin_queue) # DONE
    /\ workers' = [workers EXCEPT ![w] = single_iteration(@, args, Head(origin_queue))]
    /\ UNCHANGED <<table, calls, pc, args, outcome, locals, no_prior, aux,
                   origin_queue, coord, x>>

WorkerTakeOrigin(w) ==
    /\ coord # "idle"
    /\ workers[w].pc = "running"
    /\ origin_queue # <<>>
    /\ Head(origin_queue) # DONE
    /\ origin_queue' = Tail(origin_queue)
    /\ workers' = [workers EXCEPT ![w] = single_iteration(@, args, Head(origin_queue))]
    /\ UNCHANGED <<table, calls, pc, args, outcome, locals, no_prior, aux, coord, x>>

WorkerTakeSentinel(w) ==
    /\ coord # "idle"
    /\ workers[w].pc = "running"
    /\ origin_queue # <<>>
    /\ Head(origin_queue) = DONE
    /\ origin_queue' = Tail(origin_queue)
    /\ workers' = [workers EXCEPT ![w] = single_finish(@, args, origin_index)]
    /\ UNCHANGED <<table, calls, pc, args, outcome, locals, no_prior, aux, coord, x>>

\* Line 431: the while condition.
CoordPoll ==
    /\ coord = "poll"
    /\ coord' = IF \A w \in Workers : done(workers[w]) THEN "collect" ELSE "body"
    /\ UNCHANGED <<table, calls, pc, args, outcome, locals, no_prior, aux,
                   origin_queue, workers, x>>

\* Lines 432-435: the progress line divides by the number of origins, then
\* the exception of the first finished worker that has one is raised.
CoordBody ==
    /\ coord = "body"
    /\ LET failed == {w \in Workers : workers[w].pc = "raised"}
       IN IF n_origins = 0
          THEN coord' = "idle" /\ outcome' = "ZeroDivisionError"
          ELSE IF failed # {}
          THEN coord' = "idle" /\ outcome' = workers[Min(failed)].error
          ELSE coord' = "poll" /\ outcome' = outcome
    /\ UNCHANGED <<table, calls, pc, args, locals, no_prior, aux, origin_queue,
                   workers, x>>

\* Lines 438-443: every future is done; as_completed hands them out in no
\* fixed order, and result() re-raises a worker's exception.
CoordCollect ==
    /\ coord = "collect"
    /\ coord' = "idle"
    /\ LET failed == {w \in Workers : workers[w].pc = "raised"}
       IN IF failed # {}
          THEN /\ \E w \in failed : outcome' = workers[w].error
               /\ x' = x
          ELSE /\ outcome' = "returned"
               /\ x' = <<concat(workers, Workers)>>
    /\ UNCHANGED <<table, calls, pc, args, locals, no_prior, aux, origin_queue,
                   workers>>

Next ==
    \/ \E a \in Args : accessibility(a)
    \/ \E a \in Args : closest_facility(a)
    \/ SpliceStep
    \/ SearchStep
    \/ RestoreStep
    \/ AggregateStep
    \/ ReturnStep

Spec == Init /\ [][Next]_vars

\* parallel_accessibility, then accessibility on the same zonal with the
\* same arguments.
ParNext ==
    \/ \E a \in Args : calls = 0 /\ parallel_accessibility(a)
    \/ \E w \in Workers : WorkerStart(w)
    \/ \E w \in Workers : WorkerTakeOrigin(w)
    \/ \E w \in Workers : WorkerTakeSentinel(w)
    \/ CoordPoll
    \/ CoordBody
    \/ CoordCollect
    \/ \E a \in {args} : calls = 1 /\ accessibility(a)
    \/ SpliceStep
    \/ SearchStep
    \/ RestoreStep
    \/ AggregateStep
    \/ ReturnStep

ParSpec == Init /\ [][ParNext]_vars

(***************************************************************************)
(* What the claims are measured against, written apart from the tools'     *)
(* own arithmetic.                                                         *)
(***************************************************************************)
Origins == OriginSet(n_origins)

\* What the scoped search returns for origin o on the view create_graph built.
Found(o) ==
    turn_o_scope(add_node_to_graph(create_d_graph, o), o, args.search_radius)

Reachers(d, P) == {o \in P : d \in DOMAIN Found(o)}

WeightOf(d) ==
    IF args.weight = <<>> THEN 1 ELSE layer_weight[node_rows[d].source_id]

\* weight(d)^alpha / e^(beta * dist), scaled by GravityScale.
TermOf(d, dist) ==
    IF WeightOf(d) = NaN THEN NaN
    ELSE (WeightOf(d) ^ args.alpha * GravityScale) \div (2 ^ (args.beta[1] * dist))

\* The sum of F over S; a NaN term makes it NaN.
RECURSIVE Sigma(_, _)
Sigma(F(_), S) ==
    IF S = {} THEN 0
    ELSE LET d == CHOOSE e \in S : TRUE
             rest == Sigma(F, S \ {d})
         IN IF F(d) = NaN \/ rest = NaN THEN NaN ELSE F(d) + rest

Weighted(S) == {d \in S : WeightOf(d) # NaN}

Ended == pc = "idle" /\ coord = "idle" /\ calls > 0

(***************************************************************************)
(* C1.  Outside the splice/remove bracket of a search the d view is        *)
(* exactly the view create_graph built: same vertices, same edges, same    *)
(* weights.  This holds after every bracket of every call, whichever       *)
(* origin was spliced and however many destinations share its edge.        *)
(***************************************************************************)
C1_SpliceRestored ==
    pc \in {"idle", "loop", "restored"} => d_graph = create_d_graph

\* The second origin of a second call has just been removed again; its
\* nearest edge carries two destination splices.
C1_Witness ==
    /\ pc = "restored"
    /\ calls = 2
    /\ o_pos = 2
    /\ Cardinality({d \in Destinations :
            node_rows[d].nearest_edge_id = node_rows[o_idx].nearest_edge_id}) = 2
    /\ d_graph = create_d_graph

(***************************************************************************)
(* C3.  After accessibility with reach=True and closest_facility=False     *)
(* returns, every origin's una_reach is the sum of the weights of the      *)
(* destinations its search returned, leaving out the destinations whose    *)
(* weight is NaN (1 each when no weight attribute is given, 0 when the     *)
(* search returned none).                                                  *)
(***************************************************************************)
AfterReach == Ended /\ outcome = "returned" /\ args.reach /\ ~args.closest_facility

C3_ReachSumsWeights ==
    AfterReach =>
        \A o \in Origins :
            nodes.una_reach[o] = Sigma(WeightOf, Weighted(DOMAIN Found(o)))

\* C3 as stated: the sum runs over exactly the destinations returned.
C3_AsStated ==
    AfterReach =>
        \A o \in Origins : nodes.una_reach[o] = Sigma(WeightOf, DOMAIN Found(o))

\* An origin reached a destination whose weight is NaN and one whose is not.
C3_Witness ==
    /\ AfterReach
    /\ \E o \in Origins :
        /\ Weighted(DOMAIN Found(o)) # DOMAIN Found(o)
        /\ nodes.una_reach[o] > 0

(***************************************************************************)
(* C4.  After accessibility with gravity=True, a beta and                  *)
(* closest_facility=False returns, every origin's una_gravity is the sum   *)
(* of weight(d)^alpha / e^(beta*dist(o,d)) over the destinations its       *)
(* search returned whose weight is not NaN, dist being the distance the    *)
(* search returned.                                                        *)
(***************************************************************************)
AfterGravity == Ended /\ outcome = "returned" /\ args.gravity /\ ~args.closest_facility

GravityOver(o, S) == LET T(d) == TermOf(d, Found(o)[d]) IN Sigma(T, S)

C4_GravitySumsTerms ==
    AfterGravity =>
        \A o \in Origins :
            nodes.una_gravity[o] = GravityOver(o, Weighted(DOMAIN Found(o)))

\* C4 as stated: the sum runs over exactly the destinations returned.
C4_AsStated ==
    AfterGravity =>
        \A o \in Origins : nodes.una_gravity[o] = GravityOver(o, DOMAIN Found(o))

C4_Witness ==
    /\ AfterGravity
    /\ args.alpha = 2
    /\ \E o \in Origins :
        /\ Weighted(DOMAIN Found(o)) # DOMAIN Found(o)
        /\ \E d \in DOMAIN Found(o) : Found(o)[d] > 0 /\ WeightOf(d) > 1
        /\ nodes.una_gravity[o] > 0

(***************************************************************************)
(* C5.  A destination's recorded origin changes only when the origin being *)
(* processed reached it at a strictly smaller distance than the recorded   *)
(* one; at an equal distance the first-processed origin keeps it.          *)
(***************************************************************************)
C5_OnlyStrictlyCloserOverwrites ==
    [][\A d \in Destinations :
          (/\ nodes.una_closest_destination[d] # NaN
           /\ nodes'.una_closest_destination[d] # nodes.una_closest_destination[d])
          => /\ nodes'.una_closest_destination_distance[d]
                    < nodes.una_closest_destination_distance[d]
             /\ pc = "restored"
             /\ nodes'.una_closest_destination[d] = o_idx
             /\ nodes'.una_closest_destination_distance[d] = d_idxs[d]]_vars

\* Both origins were processed and reached destination 5 at the same
\* distance; the first one holds it.
C5_Witness ==
    /\ pc = "loop"
    /\ o_pos = 3
    /\ args.closest_facility
    /\ 5 \in DOMAIN Found(7) \cap DOMAIN Found(8)
    /\ Found(7)[5] = Found(8)[5]
    /\ nodes.una_closest_destination[5] = 7
    /\ nodes.una_closest_destination[6] = 8

(***************************************************************************)
(* C6.  In a closest-facility call on a table without prior                *)
(* closest-facility cells, after any prefix of the origins: a destination  *)
(* reached by a processed origin is recorded with a processed origin at    *)
(* the minimum distance over the processed origins that reached it, and    *)
(* with that distance; a destination none of them reached is unassigned.   *)
(***************************************************************************)
ProcessedSoFar ==
    IF pc = "idle" THEN Origins ELSE {origin_index[k] : k \in 1 .. (o_pos - 1)}

InClosestFacilityRun ==
    /\ calls > 0
    /\ coord = "idle"
    /\ args.closest_facility
    /\ no_prior
    /\ outcome \in {"running", "returned", "KeyError"}

C6_RecordedIsNearestSoFar ==
    InClosestFacilityRun =>
        \A d \in Destinations :
            LET R == Reachers(d, ProcessedSoFar)
                o == nodes.una_closest_destination[d]
            IN IF R = {}
               THEN /\ o = NaN
                    /\ nodes.una_closest_destination_distance[d] = NaN
               ELSE /\ o \in R
                    /\ \A q \in R : Found(o)[d] <= Found(q)[d]
                    /\ nodes.una_closest_destination_distance[d] = Found(o)[d]

\* One of two origins processed: it holds what it reached, the rest is open.
C6_Witness ==
    /\ InClosestFacilityRun
    /\ pc = "loop"
    /\ n_origins = 2
    /\ o_pos = 2
    /\ nodes.una_closest_destination[4] = 7
    /\ nodes.una_closest_destination[6] = 7
    /\ Found(8)[6] < Found(7)[6]

(***************************************************************************)
(* C7.  After a closest-facility call has processed all origins and ended, *)
(* each origin's una_reach (with reach) and una_gravity (with gravity) are *)
(* the sums over only the destinations whose una_closest_destination is    *)
(* that origin, and every destination reached by some origin is assigned   *)
(* to exactly one origin.                                                  *)
(***************************************************************************)
AfterClosestFacility ==
    /\ Ended
    /\ args.closest_facility
    /\ outcome \in {"returned", "KeyError"}

AssignedTo(o) == {d \in Destinations : nodes.una_closest_destination[d] = o}

\* The distance from origin o to a destination assigned to it: the one this
\* call's search returned, else the one recorded with the assignment.
DistTo(o, d) ==
    IF d \in DOMAIN Found(o) THEN Found(o)[d]
    ELSE nodes.una_closest_destination_distance[d]

GravityAssigned(o) == LET T(d) == TermOf(d, DistTo(o, d)) IN Sigma(T, AssignedTo(o))

C7_TotalsOverAssigned ==
    AfterClosestFacility =>
        /\ \A o \in Origins :
            /\ args.reach => nodes.una_reach[o] = Sigma(WeightOf, AssignedTo(o))
            /\ args.gravity => nodes.una_gravity[o] = GravityAssigned(o)
        /\ \A d \in Destinations :
            Reachers(d, Origins) # {}
                => Cardinality({o \in Origins : d \in AssignedTo(o)}) = 1

(***************************************************************************)
(* C2.  With gravity=True and beta=None every entry point ends with        *)
(* ValueError: accessibility and closest_facility before any origin is     *)
(* spliced or any cell written, single_accessibility before it takes       *)
(* anything from the queue, and parallel_accessibility by raising that     *)
(* error without a result.                                                 *)
(***************************************************************************)
C2_MissingBetaIsValueError ==
    missing_beta(args) =>
        /\ pc = "idle"
        /\ nodes = fresh_nodes(n_origins)
        /\ d_graph = create_d_graph
        /\ x = <<>>
        /\ \A w \in Workers :
            /\ workers[w].processed_origins = <<>>
            /\ workers[w].pc \in {"none", "pending", "raised"}
            /\ workers[w].pc = "raised" => workers[w].error = "ValueError"
        /\ origin_queue \in {<<>>, origin_index \o sentinels}
        /\ Ended => outcome = "ValueError"

(***************************************************************************)
(* C8.  While no worker has raised, every origin id is either still on the *)
(* queue or in the processed list of exactly one worker, once; and the     *)
(* frame parallel_accessibility returns holds exactly one row per origin   *)
(* and no other row.                                                       *)
(***************************************************************************)
Count(seq, v) == Cardinality({i \in 1 .. Len(seq) : seq[i] = v})

RECURSIVE Taken(_, _)
Taken(S, v) ==
    IF S = {} THEN 0
    ELSE LET w == CHOOSE u \in S : TRUE
         IN Count(workers[w].processed_origins, v) + Taken(S \ {w}, v)

PoolActive == \A w \in Workers : workers[w].pc # "none"

C8_EachOriginOnce ==
    /\ PoolActive =>
        /\ \A o \in Origins : Count(origin_queue, o) + Taken(Workers, o) = 1
        /\ \A w \in Workers :
            \A i \in 1 .. Len(workers[w].processed_origins) :
                workers[w].processed_origins[i] \in Origins
        /\ (coord = "collect" /\ \A w \in Workers : workers[w].pc = "returned")
            => \A o \in Origins : Taken(Workers, o) = 1
    /\ x # <<>> =>
        /\ {r.id : r \in BagToSet(x[1])} = Origins
        /\ BagCardinality(x[1]) = n_origins

\* Two origins, each processed by another worker, and the frame returned.
C8_Witness ==
    /\ x # <<>>
    /\ outcome = "returned"
    /\ coord = "idle"
    /\ n_origins = 2
    /\ \A w \in Workers : Len(workers[w].processed_origins) <= 1
    /\ BagCardinality(x[1]) = 2

(***************************************************************************)
(* C9.  When a worker has raised, parallel_accessibility ends by raising a *)
(* worker's exception and returns no frame.                                *)
(***************************************************************************)
Raised == {w \in Workers : workers[w].pc = "raised"}

C9_WorkerFailureIsRaised ==
    (Ended /\ Raised # {}) =>
        /\ outcome \in {workers[w].error : w \in Raised}
        /\ x = <<>>

(***************************************************************************)
(* C10.  With closest_facility=False, the una_reach and una_gravity of     *)
(* every row parallel_accessibility returned equal what accessibility,     *)
(* run on the same zonal with the same arguments, writes for that origin.  *)
(***************************************************************************)
BothReturned ==
    /\ Ended
    /\ calls = 2
    /\ outcome = "returned"
    /\ x # <<>>
    /\ ~args.closest_facility

C10_ParallelEqualsSequential ==
    BothReturned =>
        \A r \in BagToSet(x[1]) :
            /\ r.una_reach = nodes.una_reach[r.id]
            /\ r.una_gravity = nodes.una_gravity[r.id]

C10_Witness ==
    /\ BothReturned
    /\ n_origins = 2
    /\ args.reach
    /\ args.gravity
    /\ \A r \in BagToSet(x[1]) : r.una_reach > 1 /\ r.una_gravity > 0

(***************************************************************************)
(* C11.  With closest_facility=True, the una_reach and una_gravity of      *)
(* every row parallel_accessibility returned equal the closest-facility    *)
(* restricted values accessibility, run on the same zonal with the same    *)
(* arguments, leaves for that origin, however the queue dealt the origins  *)
(* to the workers.                                                         *)
(***************************************************************************)
BothReturnedClosest ==
    /\ Ended
    /\ calls = 2
    /\ outcome = "returned"
    /\ x # <<>>
    /\ args.closest_facility

C11_ParallelEqualsSequentialClosest ==
    BothReturnedClosest =>
        \A r \in BagToSet(x[1]) :
            /\ r.una_reach = nodes.una_reach[r.id]
            /\ r.una_gravity = nodes.una_gravity[r.id]

(***************************************************************************)
(* One run of the scoped search, a turn of its loop at a time.             *)
(***************************************************************************)
core == <<table, calls, pc, args, outcome, locals, no_prior, pool, x>>

TurnScopeCall(c) ==
    /\ search.pc = "none"
    /\ search' = search_start(c)
    /\ UNCHANGED <<core, walk, flow, build, area>>

TurnScopePop ==
    /\ search.pc = "running"
    /\ search.forward_q # {}
    /\ search' = search_pop(search)
    /\ UNCHANGED <<core, walk, flow, build, area>>

TurnScopeReturn ==
    /\ search.pc = "running"
    /\ search.forward_q = {}
    /\ search' = [search EXCEPT !.pc = "done"]
    /\ UNCHANGED <<core, walk, flow, build, area>>

SearchInit ==
    /\ n_origins = 0
    /\ tools_idle
    /\ search = no_search
    /\ walk = no_walk
    /\ flow = no_flow
    /\ build = no_build

SearchNext ==
    \/ \E c \in SearchConfigs : TurnScopeCall(c)
    \/ TurnScopePop
    \/ TurnScopeReturn

SearchSpec == SearchInit /\ [][SearchNext]_vars

(***************************************************************************)
(* C13.  Every destination distance the scoped search returns is the       *)
(* minimum, over all paths from the origin to that destination, of the     *)
(* edge weights plus turn_penalty_amount for every pair of consecutive     *)
(* edges that deviates by more than turn_threshold_degree.                 *)
(***************************************************************************)
\* More than any path costs.
TooFar == 1 + Cardinality(TurnEdgeIds) * (turn_edges[6].weight + 5)

\* The cost of going from u over n on to v under configuration c.
PenaltyAt(c, u, n, v) ==
    IF c.turn_penalty /\ u # 0 /\ deviates(u, n, v, c.turn_threshold_degree)
    THEN c.turn_penalty_amount
    ELSE 0

\* The cheapest way on from n to d, having come from u over the edges used.
RECURSIVE Cheapest(_, _, _, _, _)
Cheapest(c, u, n, used, d) ==
    IF n = d THEN 0
    ELSE Min({TooFar} \cup
             {turn_edges[turn_edge(n, v)].weight + PenaltyAt(c, u, n, v)
                 + Cheapest(c, n, v, used \cup {turn_edge(n, v)}, d) :
              v \in {m \in turn_neighbors(n) : turn_edge(n, m) \notin used}})

PathMinimum(c, d) == Cheapest(c, 0, c.o_idx, {}, d)

C13_ReturnedDistanceIsMinimum ==
    search.pc = "done" =>
        \A d \in DOMAIN search.d_idxs :
            search.d_idxs[d] = PathMinimum(search.config, d)

(***************************************************************************)
(* C14.  No destination distance and no scope distance the scoped search   *)
(* holds or returns exceeds search_radius * detour_ratio; with             *)
(* detour_ratio = 1 none exceeds search_radius.                            *)
(***************************************************************************)
C14_WithinRadius ==
    search.pc \in {"running", "done"} =>
        LET limit == search.config.search_radius * search.config.detour_ratio
        IN /\ \A n \in DOMAIN search.o_scope : search.o_scope[n] <= limit
           /\ \A d \in DOMAIN search.d_idxs : search.d_idxs[d] <= limit
           /\ search.config.detour_ratio = 1 =>
                \A d \in DOMAIN search.d_idxs :
                    search.d_idxs[d] <= search.config.search_radius

\* A search with a turn penalty ended with a destination right at the limit
\* and the other one left out.
C14_Witness ==
    /\ search.pc = "done"
    /\ search.config.turn_penalty
    /\ search.config.detour_ratio = 2
    /\ \E d \in DOMAIN search.d_idxs :
        search.d_idxs[d] = search.config.search_radius * search.config.detour_ratio
    /\ DOMAIN search.d_idxs # TurnDestinations

(***************************************************************************)
(* Specification of alternative_paths: the scoped search, then the path    *)
(* enumerator, then the frame of paths.                                    *)
(***************************************************************************)
PathStart ==
    /\ search.pc = "done"
    /\ walk.pc = "none"
    /\ walk' = walk_start(search)
    /\ UNCHANGED <<core, search, flow, build, area>>

PathStep ==
    /\ walk.pc = "running"
    /\ walk.stack # <<>>
    /\ walk' = walk_step(walk)
    /\ UNCHANGED <<core, search, flow, build, area>>

AlternativePathsReturn ==
    /\ walk.pc = "running"
    /\ walk.stack = <<>>
    /\ walk' = [walk EXCEPT !.pc = "done", !.rows = destination_gdf(walk)]
    /\ UNCHANGED <<core, search, flow, build, area>>

PathNext ==
    \/ SearchNext
    \/ PathStart
    \/ PathStep
    \/ AlternativePathsReturn

PathSpec == SearchInit /\ [][PathNext]_vars

(***************************************************************************)
(* C15.  For every destination in range, the paths alternative_paths       *)
(* returns are exactly the edge sequences from the origin to that          *)
(* destination that repeat no edge and cost at most the destination's      *)
(* allowed distance (its search distance times detour_ratio); each         *)
(* reported distance is the cost of its edge sequence.                     *)
(***************************************************************************)
\* The sequences of k edges none of which comes twice.
RECURSIVE EdgeSequencesOf(_)
EdgeSequencesOf(k) ==
    IF k = 0 THEN {<<>>}
    ELSE UNION {{Append(s, e) : e \in TurnEdgeIds \ Range(s)} :
                s \in EdgeSequencesOf(k - 1)}

EdgeSequences == UNION {EdgeSequencesOf(k) : k \in 1 .. Cardinality(TurnEdgeIds)}

\* Where the edge sequence s leads from vertex n, and at what cost; at = 0
\* when s is no path.
RECURSIVE Follow(_, _, _, _, _, _)
Follow(c, s, i, u, n, cost) ==
    IF i > Len(s) THEN [at |-> n, cost |-> cost]
    ELSE IF n \notin turn_edges[s[i]].ends THEN [at |-> 0, cost |-> 0]
    ELSE LET v == CHOOSE m \in turn_edges[s[i]].ends : m # n
         IN Follow(c, s, i + 1, n, v,
                   cost + turn_edges[s[i]].weight + PenaltyAt(c, u, n, v))

NoEdgeTwice(s) == \A i, j \in DOMAIN s : i # j => s[i] # s[j]

PathsWithin(c, d, allowed) ==
    {s \in EdgeSequences :
        /\ NoEdgeTwice(s)
        /\ Follow(c, s, 1, 0, c.o_idx, 0).at = d
        /\ Follow(c, s, 1, 0, c.o_idx, 0).cost <= allowed}

betweenness(c, n) ==
    /\ flow.pc = "none"
    /\ flow' = betweenness_start(c, n)
    /\ UNCHANGED <<core, search, walk, build, area>>

BetweennessTakeOrigin(w) ==
    /\ flow.pc = "running"
    /\ w \notin flow.finished
    /\ flow.origin_queue # <<>>
    /\ Head(flow.origin_queue) # DONE
    /\ LET o == Head(flow.origin_queue)
       IN flow' = [flow EXCEPT
                      !.origin_queue = Tail(@),
                      !.taken[w] = Append(@, o),
                      !.partial[w] = sum_by_edge(@, origin_betweenness(flow.config, o))]
    /\ UNCHANGED <<core, search, walk, build, area>>

BetweennessTakeSentinel(w) ==
    /\ flow.pc = "running"
    /\ w \notin flow.finished
    /\ flow.origin_queue # <<>>
    /\ Head(flow.origin_queue) = DONE
    /\ flow' = [flow EXCEPT !.origin_queue = Tail(@), !.finished = @ \cup {w}]
    /\ UNCHANGED <<core, search, walk, build, area>>

BetweennessMerge(w) ==
    /\ flow.pc = "running"
    /\ flow.finished = Workers
    /\ w \notin flow.merged
    /\ flow' = [flow EXCEPT
                   !.merged = @ \cup {w},
                   !.betweenness = sum_by_edge(@, flow.partial[w])]
    /\ UNCHANGED <<core, search, walk, build, area>>

BetweennessReturn ==
    /\ flow.pc = "running"
    /\ flow.merged = Workers
    /\ flow' = [flow EXCEPT !.pc = "done"]
    /\ UNCHANGED <<core, search, walk, build, area>>

BetweennessNext ==
    \/ \E c \in SearchConfigs, n \in 0 .. Len(BetweennessOrigins) : betweenness(c, n)
    \/ \E w \in Workers : BetweennessTakeOrigin(w)
    \/ \E w \in Workers : BetweennessTakeSentinel(w)
    \/ \E w \in Workers : BetweennessMerge(w)
    \/ BetweennessReturn

BetweennessSpec == SearchInit /\ [][BetweennessNext]_vars

(***************************************************************************)
(* C12.  The per-edge betweenness over N origins, for any number of        *)
(* workers and any dealing of the origins to them, is the edge-by-edge sum *)
(* of the betweenness of each origin alone, whatever the order in which    *)
(* the workers' partial results are merged.                                *)
(***************************************************************************)
RECURSIVE SumOfOrigins(_, _)
SumOfOrigins(c, n) ==
    IF n = 0 THEN [e \in TurnEdgeIds |-> 0]
    ELSE [e \in TurnEdgeIds |->
            SumOfOrigins(c, n - 1)[e] + origin_betweenness(c, BetweennessOrigins[n])[e]]

BuildInit ==
    /\ n_origins = 0
    /\ tools_idle
    /\ search = no_search
    /\ walk = no_walk
    /\ flow = no_flow
    /\ build \in [variant : {"treatment", "flags"}, layer : StreetLayers,
                  network : {None}, last : {None}]

create_street_network(a) ==
    /\ build.variant = "treatment"
    /\ LET built == node_edge_builder(build.layer, a.weight_attribute)
       IN build' = after_call(build, a, input_validation(a), built,
                              redundant_edge_treatment(built, a))
    /\ UNCHANGED <<core, search, walk, flow, area>>

create_street_network_flags(a) ==
    /\ build.variant = "flags"
    /\ LET built == node_edge_builder(build.layer, a.weight_attribute)
       IN build' = after_call(build, a, input_validation_flags(a), built,
                              redundant_edge_flags(built, a))
    /\ UNCHANGED <<core, search, walk, flow, area>>

BuildNext ==
    \/ \E a \in StreetNetworkArgs : create_street_network(a)
    \/ \E a \in StreetNetworkFlagArgs : create_street_network_flags(a)

BuildSpec == BuildInit /\ [][BuildNext]_vars

(***************************************************************************)
(* Helpers of the claims on create_street_network.                         *)
(***************************************************************************)
LastCall == build.last[1]

Returned == build.last # None /\ LastCall.raised = "none"

StoredEdges == build.network[1].edges

BuiltEdges == LastCall.built[1]

Ends(edge) == {edge.start, edge.end}

NoPairTwice(E) ==
    \A e, f \in DOMAIN E : e # f => Ends(E[e]) # Ends(E[f])

RECURSIVE TotalWeight(_, _)
TotalWeight(E, S) ==
    IF S = {} THEN 0
    ELSE LET e == CHOOSE i \in S : TRUE
         IN E[e].weight + TotalWeight(E, S \ {e})

(***************************************************************************)
(* C16.  After create_street_network with discard, no unordered node pair  *)
(* is connected by more than one edge, the edge left for a pair is one of  *)
(* the builder's edges of that pair (either direction) with the least      *)
(* weight, and there are at most as many edges as the builder made.        *)
(***************************************************************************)
C16_DiscardKeepsOneMinimum ==
    Returned /\ LastCall.applied = <<"discard">> =>
        /\ NoPairTwice(StoredEdges)
        /\ \A e \in DOMAIN StoredEdges :
            /\ e \in DOMAIN BuiltEdges
            /\ StoredEdges[e] = BuiltEdges[e]
            /\ \A f \in DOMAIN BuiltEdges :
                Ends(BuiltEdges[f]) = Ends(StoredEdges[e]) =>
                    StoredEdges[e].weight <= BuiltEdges[f].weight
        /\ \A f \in DOMAIN BuiltEdges :
            \E e \in DOMAIN StoredEdges : Ends(StoredEdges[e]) = Ends(BuiltEdges[f])
        /\ Cardinality(DOMAIN StoredEdges) <= Cardinality(DOMAIN BuiltEdges)

\* Discard ran on three edges of one pair, written in both directions, two
\* of them of the same least weight.
C16_Witness ==
    /\ Returned
    /\ LastCall.applied = <<"discard">>
    /\ \E e, f, g \in DOMAIN BuiltEdges :
        /\ e # f
        /\ BuiltEdges[e].start = BuiltEdges[f].end
        /\ BuiltEdges[e].end = BuiltEdges[f].start
        /\ BuiltEdges[e].start # BuiltEdges[e].end
        /\ BuiltEdges[e].weight = BuiltEdges[f].weight
        /\ Ends(BuiltEdges[g]) = Ends(BuiltEdges[e])
        /\ BuiltEdges[g].weight > BuiltEdges[e].weight
    /\ Cardinality(DOMAIN StoredEdges) < Cardinality(DOMAIN BuiltEdges)

(***************************************************************************)
(* C17.  After create_street_network with split, no unordered node pair is *)
(* connected by more than one edge, every edge's two nodes are in the node *)
(* table, and the edges weigh in total what the builder's edges weighed.   *)
(***************************************************************************)
C17_SplitLeavesNoPairTwice ==
    Returned /\ LastCall.applied = <<"split">> =>
        /\ NoPairTwice(StoredEdges)
        /\ \A e \in DOMAIN StoredEdges :
            Ends(StoredEdges[e]) \subseteq build.network[1].nodes
        /\ TotalWeight(StoredEdges, DOMAIN StoredEdges)
            = TotalWeight(BuiltEdges, DOMAIN BuiltEdges)

(***************************************************************************)
(* C19.  create_street_network raises, before the node/edge builder is     *)
(* called, on every call whose source_layer is not loaded, whose           *)
(* weight_attribute is not a column of the layer, whose tolerance is       *)
(* negative, whose treatment is not keep, discard or split, whose turn     *)
(* threshold is outside 0..180 or whose turn penalty is negative; and      *)
(* whenever it raises, the network is the one from before the call.        *)
(***************************************************************************)
ToBeRejected(a) ==
    \/ a.source_layer # "streets"
    \/ a.weight_attribute \notin {None, <<"cost">>}
    \/ a.node_snapping_tolerance < 0
    \/ ~(a.redundant_edge_treatment \in {"keep", "discard", "split"})
    \/ ~(0 <= a.turn_threshold_degree /\ a.turn_threshold_degree <= 180)
    \/ a.turn_penalty_amount < 0

C19_InvalidCallsRaiseBeforeBuilding ==
    build.last # None =>
        /\ build.variant = "treatment" /\ ToBeRejected(LastCall.args) =>
            LastCall.raised # "none" /\ ~LastCall.builder_called
        /\ LastCall.raised # "none" => build.network = LastCall.prior

\* A call whose only fault is a turn threshold above 180 raised on a Zonal
\* object that had a network.
C19_Witness ==
    /\ build.last # None
    /\ build.variant = "treatment"
    /\ LastCall.raised # "none"
    /\ LastCall.prior # None
    /\ LastCall.args.turn_threshold_degree > 180
    /\ ~ToBeRejected([LastCall.args EXCEPT !.turn_threshold_degree = 45])

(***************************************************************************)
(* C20.  A call applies one treatment at most: split alone under 'split',  *)
(* discard alone under 'discard', none under 'keep', where the builder's   *)
(* edges are stored as they are.  With flags: split when                   *)
(* split_redundant_edges is set, discard when only discard_redundant_edges *)
(* is set, none when neither is.                                           *)
(***************************************************************************)
C20_OneTreatmentPerCall ==
    Returned =>
        /\ build.variant = "treatment" =>
            /\ LastCall.applied =
                (CASE LastCall.args.redundant_edge_treatment = "split" -> <<"split">>
                   [] LastCall.args.redundant_edge_treatment = "discard" -> <<"discard">>
                   [] LastCall.args.redundant_edge_treatment = "keep" -> <<>>)
            /\ LastCall.args.redundant_edge_treatment = "keep" =>
                StoredEdges = BuiltEdges
        /\ build.variant = "flags" =>
            /\ LastCall.applied =
                (IF LastCall.args.split_redundant_edges THEN <<"split">>
                 ELSE IF LastCall.args.discard_redundant_edges THEN <<"discard">>
                 ELSE <<>>)
            /\ ~LastCall.args.split_redundant_edges
                    /\ ~LastCall.args.discard_redundant_edges =>
                StoredEdges = BuiltEdges

\* Under 'split' a layer with redundant edges was split, after an earlier
\* call had discarded them: more edges are stored than the builder made.
C20_Witness ==
    /\ Returned
    /\ build.variant = "treatment"
    /\ LastCall.args.redundant_edge_treatment = "split"
    /\ LastCall.prior # None
    /\ Cardinality(DOMAIN LastCall.prior[1].edges) < Cardinality(DOMAIN BuiltEdges)
    /\ Cardinality(DOMAIN StoredEdges) > Cardinality(DOMAIN BuiltEdges)

(***************************************************************************)
(* Specification of insert_node: a Zonal object whose network was created  *)
(* from the layer "streets" under any treatment, in either variant.        *)
(***************************************************************************)
Created(variant, layer, a) ==
    LET b == [variant |-> variant, layer |-> layer, network |-> None, last |-> None]
        built == node_edge_builder(layer, a.weight_attribute)
    IN IF variant = "treatment"
       THEN after_call(b, a, input_validation(a), built,
                       redundant_edge_treatment(built, a))
       ELSE after_call(b, a, input_validation_flags(a), built,
                       redundant_edge_flags(built, a))

InsertInit ==
    /\ n_origins = 0
    /\ tools_idle
    /\ search = no_search
    /\ walk = no_walk
    /\ flow = no_flow
    /\ build \in
        {Created("treatment", layer, a) :
            layer \in StreetLayers,
            a \in {c \in StreetNetworkArgs :
                     input_validation(c) = "none" /\ c.weight_attribute = None}}
        \cup
        {Created("flags", layer, a) :
            layer \in StreetLayers,
            a \in {c \in StreetNetworkFlagArgs :
                     input_validation_flags(c) = "none" /\ c.weight_attribute = None}}

insert_node(label, e, along) ==
    /\ build.variant # "none"
    /\ build.network # None
    /\ Len(build.network[1].inserted) < MaxInserted
    /\ e \in DOMAIN build.network[1].edges
    /\ along \in Projections(build.network[1].edges[e].weight)
    /\ build' = with_inserted_node(build, label, e, along)
    /\ UNCHANGED <<core, search, walk, flow, area>>

\* The ids an edge can have: split adds at most one edge per line.
InsertEdgeIds == 1 .. 2 * Max({Len(layer) : layer \in StreetLayers})

LineLengths == UNION {{layer[i].length : i \in DOMAIN layer} : layer \in StreetLayers}

InsertNext ==
    \E label \in NodeLabels, e \in InsertEdgeIds, along \in 0 .. Max(LineLengths) :
        insert_node(label, e, along)

InsertSpec == InsertInit /\ [][InsertNext]_vars

(***************************************************************************)
(* C18.  After any sequence of insert_node calls, every origin and         *)
(* destination row of the node table has weight_to_start + weight_to_end   *)
(* equal to the weight of the edge its nearest_edge_id names, and that     *)
(* edge's two nodes as edge_start_node and edge_end_node.                  *)
(***************************************************************************)
InsertedRows ==
    IF build.variant = "none" \/ build.network = None THEN {}
    ELSE Range(build.network[1].inserted)

ParallelEnded == calls = 1 /\ Ended /\ PoolActive

C24_TerminatesNormally ==
    (ParallelEnded /\ Raised = {}) =>
        /\ outcome = "returned"
        /\ x # <<>>
        /\ origin_queue = <<>>
        /\ \A w \in Workers : workers[w].pc = "returned"

(***************************************************************************)
(* C25.  The queue of parallel_accessibility holds its origin ids before   *)
(* its sentinels at all times, so a worker that has taken a sentinel       *)
(* leaves no origin id on the queue; every worker takes at most one        *)
(* sentinel, and nothing after it.                                         *)
(***************************************************************************)
\* The workers whose loop has ended: they took a sentinel.
TookSentinel ==
    {w \in Workers :
        \/ workers[w].pc = "returned"
        \/ workers[w].pc = "raised" /\ workers[w].error # "ValueError"}

C25_OriginsBeforeSentinels ==
    PoolActive =>
        /\ \A i, j \in DOMAIN origin_queue :
            (i < j /\ origin_queue[i] = DONE) => origin_queue[j] = DONE
        /\ TookSentinel # {} => \A o \in Origins : Count(origin_queue, o) = 0
        /\ Count(origin_queue, DONE) + Cardinality(TookSentinel) = NumWorkers

\* One worker has taken its sentinel after the other one took both origins
\* and is still in its loop.
C25_Witness ==
    /\ n_origins = 2
    /\ Cardinality(TookSentinel) = 1
    /\ \E w \in Workers :
        /\ workers[w].pc = "running"
        /\ Len(workers[w].processed_origins) = 2
    /\ origin_queue = <<DONE>>

(***************************************************************************)
(* C26.  A worker whose loop has ended without any origin, or with origins *)
(* that reached no destination, has returned, and the rows it returns are  *)
(* as it found them, whatever the flags (beta given when gravity is on).   *)
(***************************************************************************)
ReachedNothing(w) ==
    \A i \in DOMAIN workers[w].processed_origins :
        DOMAIN Found(workers[w].processed_origins[i]) = {}

C26_IdleWorkerReturns ==
    (PoolActive /\ ~missing_beta(args)) =>
        \A w \in TookSentinel :
            ReachedNothing(w) =>
                /\ workers[w].pc = "returned"
                /\ workers[w].nodes.una_closest_destination
                        = fresh_nodes(n_origins).una_closest_destination

(***************************************************************************)
(* C27.  accessibility with closest_facility=True, called on a node table  *)
(* that an earlier closest-facility run has written, returns, and leaves   *)
(* each destination assigned to the nearest origin that reaches it in this *)
(* call (the first one among equally near ones) at that distance, and      *)
(* unassigned when this call reaches it from no origin.                    *)
(***************************************************************************)
Nearest(d) ==
    LET R == Reachers(d, Origins)
        m == Min({Found(o)[d] : o \in R})
    IN Min({o \in R : Found(o)[d] = m})

ClosestOnFreshTable ==
    \A d \in Destinations :
        IF Reachers(d, Origins) = {}
        THEN /\ isnan(nodes.una_closest_destination[d])
             /\ isnan(nodes.una_closest_destination_distance[d])
        ELSE /\ nodes.una_closest_destination[d] = Nearest(d)
             /\ nodes.una_closest_destination_distance[d] = Found(Nearest(d))[d]

C27_IndependentOfEarlierRuns ==
    (Ended /\ args.closest_facility /\ ~missing_beta(args) /\ ~no_prior) =>
        /\ outcome = "returned"
        /\ ClosestOnFreshTable

(***************************************************************************)
(* betweenness on the Zonal object of create_street_network: the call      *)
(* stores its turn parameters on the network before it computes anything.  *)
(***************************************************************************)
BetweennessTurnPenaltyAmounts == {0, 30, -1}

BetweennessTurnThresholds == {0, 45, 180, 181, -1}

\* Lines 267-268.  Without a network the first assignment raises
\* AttributeError and nothing is stored.
betweenness_settings(turn_penalty_amount, turn_threshold_degree) ==
    /\ build.variant = "treatment"
    /\ build' = IF build.network = None THEN build
                ELSE [build EXCEPT
                        !.network[1].turn_penalty_amount = turn_penalty_amount,
                        !.network[1].turn_threshold_degree = turn_threshold_degree]
    /\ UNCHANGED <<core, search, walk, flow, area>>

SettingsInit == BuildInit /\ build.variant = "treatment"

\* The create_street_network calls that differ in their turn parameters only.
SettingsArgs ==
    {a \in StreetNetworkArgs :
        /\ a.source_layer = "streets"
        /\ a.weight_attribute = None
        /\ a.node_snapping_tolerance = 0
        /\ a.redundant_edge_treatment = "keep"}

SettingsNext ==
    \/ \E a \in SettingsArgs : create_street_network(a)
    \/ \E p \in BetweennessTurnPenaltyAmounts, t \in BetweennessTurnThresholds :
            betweenness_settings(p, t)

SettingsSpec == SettingsInit /\ [][SettingsNext]_vars

(***************************************************************************)
(* C29.  After any sequence of create_street_network and betweenness       *)
(* calls, the turn threshold stored on the network lies in [0, 180] and    *)
(* the stored turn penalty is not negative: a call with a value out of     *)
(* range stores nothing.                                                   *)
(***************************************************************************)
C29_TurnParametersInRange ==
    build.network # None =>
        /\ build.network[1].turn_threshold_degree \in 0 .. 180
        /\ build.network[1].turn_penalty_amount >= 0

(***************************************************************************)
(* The life of a Zonal object's node table and graph views once the        *)
(* network is created: nodes are inserted and cleared, and create_graph    *)
(* builds the views.  Of a view only the vertices are kept here.           *)
(***************************************************************************)
\* The ids of the rows of that type in the node table.
node_ids(network, type) ==
    IF type = "street_node" THEN network.nodes
    ELSE {r.id : r \in {q \in Range(network.inserted) : q.type = type}}

\* Network.create_graph(light_graph=True, d_graph=True, od_graph=False):
\* both views are rebuilt from the tables as they are now.
with_graph(b) ==
    LET network == b.network[1]
    IN [b EXCEPT
           !.network[1].light_graph = <<node_ids(network, "street_node")>>,
           !.network[1].d_graph = <<node_ids(network, "street_node")
                                      \cup node_ids(network, "destination")>>]

\* zonal.py 298-321.  Without a network the call raises AttributeError.
create_graph ==
    /\ build.variant # "none"
    /\ build' = IF build.network = None THEN build ELSE with_graph(build)
    /\ UNCHANGED <<core, search, walk, flow, area>>

\* zonal.py 415-419: the node table keeps its street nodes only.
clear_nodes ==
    /\ build.variant # "none"
    /\ build' = IF build.network = None THEN build
                ELSE [build EXCEPT !.network[1].inserted = <<>>]
    /\ UNCHANGED <<core, search, walk, flow, area>>

\* create_street_network has made the network; it has no view yet.
LifecycleInit == InsertInit /\ build.variant = "treatment"

LifecycleNext ==
    \/ \E label \in NodeLabels, e \in InsertEdgeIds, along \in 0 .. Max(LineLengths) :
            insert_node(label, e, along)
    \/ clear_nodes
    \/ create_graph

LifecycleSpec == LifecycleInit /\ [][LifecycleNext]_vars

(***************************************************************************)
(* C28.  Whenever the network has its views, the vertices of the d view    *)
(* are the street nodes and the destinations of the node table, and the    *)
(* vertices of the light view are the street nodes.                        *)
(***************************************************************************)
C28_ViewsAgreeWithTables ==
    (build.network # None /\ build.network[1].d_graph # None) =>
        /\ build.network[1].d_graph[1]
                = node_ids(build.network[1], "street_node")
                    \cup node_ids(build.network[1], "destination")
        /\ build.network[1].light_graph[1] = node_ids(build.network[1], "street_node")

(***************************************************************************)
(* service_area, and the searches of accessibility and service_area when   *)
(* the scoped search may raise.                                            *)
(***************************************************************************)
\* The ids a caller passes: a street node, a destination, and two ids that
\* are origins when the table has that many.
AreaIds == {Min(StreetNodes), Min(Destinations), FirstOrigin, FirstOrigin + 1}

RECURSIVE IdLists(_)
IdLists(n) ==
    IF n = 0 THEN {<<>>}
    ELSE IdLists(n - 1)
            \cup {Append(l, i) : l \in {m \in IdLists(n - 1) : Len(m) = n - 1},
                                 i \in AreaIds}

\* origin_ids: None, a list, or something that is no list.
OriginIdArgs ==
    {[kind |-> "None", ids |-> <<>>], [kind |-> "tuple", ids |-> <<FirstOrigin>>]}
        \cup {[kind |-> "list", ids |-> l] : l \in IdLists(MaxOrigins)}

\* Mutant of origin_ids_error: the ids are looked up among all rows of the
\* node table.
origin_ids_error_any_row(origin_ids, origins) ==
    IF origin_ids.kind = "None" THEN "none"
    ELSE IF origin_ids.kind # "list" THEN "ValueError"
    ELSE IF Range(origin_ids.ids) \ (StreetNodes \cup Destinations \cup origins) # {}
    THEN "ValueError"
    ELSE "none"

\* Lines 107-113.
origin_ids_error(origin_ids, origins) ==
    IF origin_ids.kind = "None" THEN "none"
    ELSE IF origin_ids.kind # "list" THEN "ValueError"
    ELSE IF Range(origin_ids.ids) \ origins # {} THEN "ValueError"
    ELSE "none"

\* Lines 103-121: the call's locals once validation has passed (raised
\* says otherwise); given, searched and before are history.
area_start(origin_ids, search_radius, index, raised, g, tbl) ==
    [pc |-> IF raised = "none" THEN "loop" ELSE "idle",
     outcome |-> IF raised = "none" THEN "running" ELSE raised,
     given |-> origin_ids,
     origin_ids |-> IF origin_ids.kind = "None" THEN index ELSE origin_ids.ids,
     search_radius |-> search_radius,
     pos |-> 1,
     d_idxs |-> Empty,
     scope_names |-> <<>>,
     scope_origin_ids |-> <<>>,
     network_edges |-> <<>>,
     destination_ids |-> {},
     source_layer |-> None,
     searched |-> <<>>,
     before |-> [d_graph |-> g, nodes |-> tbl],
     result |-> None]

\* Lines 142-167, for the origin whose search returned d_idxs.
area_collect(ar) ==
    LET origin_id == ar.origin_ids[ar.pos]
    IN IF DOMAIN ar.d_idxs = {}
       THEN [ar EXCEPT !.pc = "loop", !.pos = @ + 1]
       ELSE [ar EXCEPT
                !.pc = "loop",
                !.pos = @ + 1,
                !.d_idxs = Empty,
                !.source_layer = <<"destinations">>,
                !.destination_ids =
                    @ \cup {node_rows[d].source_id : d \in DOMAIN ar.d_idxs},
                !.network_edges = Append(@, origin_id),
                !.scope_names = @ \o <<"service area border", "origin">>,
                !.scope_origin_ids = @ \o <<origin_id, origin_id>>]

\* Lines 169-178: the layer the destinations came from is looked up by
\* source_layer, which is still None when no search returned a destination.
area_return(ar) ==
    IF ar.source_layer = None
    THEN [ar EXCEPT !.pc = "idle", !.outcome = "KeyError"]
    ELSE [ar EXCEPT
            !.pc = "idle",
            !.outcome = "returned",
            !.result = <<[destinations |-> ar.destination_ids,
                          network_edges |-> ar.network_edges,
                          scope_gdf |-> [i \in DOMAIN ar.scope_names |->
                                            [name |-> ar.scope_names[i],
                                             origin_id |-> ar.scope_origin_ids[i]]]]>>]

area_unchanged == <<n_origins, nodes, pc, args, outcome, locals, no_prior, pool, x,
                    search, walk, flow, build>>

service_area(origin_ids, search_radius) ==
    /\ pc = "idle"
    /\ coord = "idle"
    /\ area.pc = "idle"
    /\ calls < MaxCalls
    /\ calls' = calls + 1
    /\ area' = area_start(origin_ids, search_radius, origin_index,
                          origin_ids_error(origin_ids, OriginSet(n_origins)),
                          d_graph, nodes)
    /\ UNCHANGED <<area_unchanged, d_graph>>

\* Line 127.
AreaSplice ==
    /\ area.pc = "loop"
    /\ area.pos <= Len(area.origin_ids)
    /\ d_graph' = add_node_to_graph(d_graph, area.origin_ids[area.pos])
    /\ area' = [area EXCEPT !.pc = "spliced"]
    /\ UNCHANGED <<area_unchanged, calls>>

\* Lines 130-138, when the search returns.
AreaSearch ==
    /\ area.pc = "spliced"
    /\ area' = [area EXCEPT
                  !.pc = "searched",
                  !.searched = Append(@, area.origin_ids[area.pos]),
                  !.d_idxs = turn_o_scope(d_graph, area.origin_ids[area.pos],
                                          area.search_radius)]
    /\ UNCHANGED <<area_unchanged, calls, d_graph>>

\* Lines 130-138, when the search raises: nothing catches the exception, so
\* it ends the call where it stands.
AreaSearchRaises ==
    /\ area.pc = "spliced"
    /\ area' = [area EXCEPT
                  !.pc = "idle",
                  !.outcome = "SearchError",
                  !.searched = Append(@, area.origin_ids[area.pos])]
    /\ UNCHANGED <<area_unchanged, calls, d_graph>>

\* Line 140.
AreaRestore ==
    /\ area.pc = "searched"
    /\ d_graph' = remove_node_to_graph(d_graph, area.origin_ids[area.pos])
    /\ area' = [area EXCEPT !.pc = "restored"]
    /\ UNCHANGED <<area_unchanged, calls>>

AreaCollect ==
    /\ area.pc = "restored"
    /\ area' = area_collect(area)
    /\ UNCHANGED <<area_unchanged, calls, d_graph>>

AreaReturn ==
    /\ area.pc = "loop"
    /\ area.pos > Len(area.origin_ids)
    /\ area' = area_return(area)
    /\ UNCHANGED <<area_unchanged, calls, d_graph>>

\* tools.py 45-53 of accessibility, when the search raises: the exception
\* ends the call between add_node_to_graph and remove_node_to_graph.
SearchRaises ==
    /\ pc = "spliced"
    /\ pc' = "idle"
    /\ outcome' = "SearchError"
    /\ o_pos' = 0
    /\ d_idxs' = Empty
    /\ reaches' = Empty
    /\ gravities' = Empty
    /\ UNCHANGED <<table, calls, args, no_prior, pool, x, aux>>

\* The accessibility calls made next to service_area: reach alone.
AreaAccessibilityArgs ==
    {a \in Args :
        /\ a.reach /\ ~a.gravity /\ ~a.closest_facility
        /\ a.weight = <<>>
        /\ a.search_radius = Max(Radii)}

AreaNext ==
    \/ \E origin_ids \in OriginIdArgs, search_radius \in Radii :
            service_area(origin_ids, search_radius)
    \/ AreaSplice
    \/ AreaSearch
    \/ AreaSearchRaises
    \/ AreaRestore
    \/ AreaCollect
    \/ AreaReturn
    \/ \E a \in AreaAccessibilityArgs : area.pc = "idle" /\ accessibility(a)
    \/ SpliceStep
    \/ SearchStep
    \/ SearchRaises
    \/ RestoreStep
    \/ AggregateStep
    \/ ReturnStep

AreaSpec == Init /\ [][AreaNext]_vars

(***************************************************************************)
(* C21.  service_area with origin_ids that is no list, or a list holding   *)
(* an id that is not an origin of the node table, ends with ValueError     *)
(* before any origin is spliced or searched, the d view and the node       *)
(* table being as the call found them; with origin_ids=None a call whose   *)
(* loop has ended has searched every origin, in the table's order.         *)
(***************************************************************************)
InvalidOriginIds ==
    \/ area.given.kind = "tuple"
    \/ /\ area.given.kind = "list"
       /\ \E i \in DOMAIN area.given.ids : area.given.ids[i] \notin Origins

C21_InvalidOriginIdsRaiseFirst ==
    area.outcome # "none" =>
        /\ InvalidOriginIds =>
            /\ area.outcome = "ValueError"
            /\ area.pc = "idle"
            /\ area.searched = <<>>
            /\ outcome = "none" =>
                /\ d_graph = area.before.d_graph
                /\ nodes = area.before.nodes
        /\ ~InvalidOriginIds => area.outcome # "ValueError"
        /\ (area.given.kind = "None" /\ area.outcome \in {"returned", "KeyError"})
            => area.searched = origin_index

\* A list with an origin and a destination was refused.
C21_Witness ==
    /\ area.outcome = "ValueError"
    /\ area.given.kind = "list"
    /\ Range(area.given.ids) = {FirstOrigin, Min(Destinations)}
    /\ n_origins > 0
    /\ d_graph = create_d_graph

(***************************************************************************)
(* C23.  When no call is under way and the last search of accessibility   *)
(* or of service_area has raised, the d view is the view create_graph      *)
(* built: no origin is left in it.                                         *)
(***************************************************************************)
C23_RestoredAfterSearchError ==
    (pc = "idle" /\ area.pc = "idle"
        /\ (outcome = "SearchError" \/ area.outcome = "SearchError"))
        => d_graph = create_d_graph

(***************************************************************************)
(* C22.  Between add_node_to_graph and remove_node_to_graph the d view     *)
(* holds the origin being searched and no other; elsewhere in a call, and  *)
(* once a call has returned, it holds no origin.                           *)
(***************************************************************************)
SplicedOrigins == d_graph.V \ (StreetNodes \cup Destinations)

C22_OnlyItsOwnOriginSpliced ==
    /\ pc \in {"spliced", "searched"} => SplicedOrigins = {o_idx}
    /\ area.pc \in {"spliced", "searched"}
        => SplicedOrigins = {area.origin_ids[area.pos]}
    /\ (pc \in {"loop", "restored"} \/ area.pc \in {"loop", "restored"})
        => SplicedOrigins = {}
    /\ (pc = "idle" /\ area.pc = "idle"
            /\ (outcome = "returned" \/ area.outcome = "returned"))
        => SplicedOrigins = {}

(***************************************************************************)
(* C30.  A service_area call with valid origin ids whose searches all      *)
(* returned has itself returned; its scope frame holds, for each origin    *)
(* whose search reached a destination, one border row and one origin row   *)
(* with that origin's id, and nothing for the other origins.               *)
(***************************************************************************)
AreaFound(o) ==
    turn_o_scope(add_node_to_graph(create_d_graph, o), o, area.search_radius)

RECURSIVE ScopeRows(_)
ScopeRows(ids) ==
    IF ids = <<>> THEN <<>>
    ELSE (IF DOMAIN AreaFound(Head(ids)) = {} THEN <<>>
          ELSE <<[name |-> "service area border", origin_id |-> Head(ids)],
                 [name |-> "origin", origin_id |-> Head(ids)]>>)
            \o ScopeRows(Tail(ids))

C30_CompletesForEverySearchOutcome ==
    (area.pc = "idle" /\ area.outcome \notin {"none", "ValueError", "SearchError"}) =>
        /\ area.outcome = "returned"
        /\ area.result[1].scope_gdf = ScopeRows(area.origin_ids)
        /\ Len(area.result[1].network_edges) * 2 = Len(area.result[1].scope_gdf)

=============================================================================
